---- MODULE Spec2Model ----
(***************************************************************************)
(* Model of the PBX/IVR call-session engine (src/pbx_server.py) and of its *)
(* repository (src/database_handler.py).                                   *)
(*                                                                         *)
(* Python values are tagged records, so that None, '', 0, a raw input      *)
(* string and a parsed integer stay distinct: a request value is a string  *)
(* (a tuple of characters), int() is computed from its characters.         *)
(* One action is one HTTP hit: the Flask route, the handler it dispatches  *)
(* to and every repository call the handler makes.  The only handler that  *)
(* takes two steps is the receipt description, which is cut at the call of *)
(* the external receipt provider.                                          *)
(***************************************************************************)
EXTENDS Integers, Sequences, FiniteSets, TLC

VARIABLES
    customers,        \* table customers: sequence of rows, id = position
    customer_details, \* table customer_details: sequence of rows
    calls,            \* table calls: sequence of rows (call_id UNIQUE)
    receipts,         \* table receipts: sequence of rows, id = position
    contacts,         \* table contacts: sequence of rows, id = position
    messages,         \* table messages: sequence of rows
    annual_reports,   \* table annual_reports: sequence of rows
    current_calls,    \* PBXHandler.current_calls: call id -> session dict
    inflight,         \* the hit waiting for the receipt provider, if any
    prompt,           \* call id -> the descriptor the PBX last got for it
    last,             \* the last hit served: request and response
    hits,             \* number of hits served so far
    threads           \* worker thread -> the hit it is serving and how far

vars == <<customers, customer_details, calls, receipts, contacts, messages,
          annual_reports, current_calls, inflight, prompt, last, hits, threads>>

-----------------------------------------------------------------------------
(* Bounds of the model *)

MaxHits == 9
MaxThreadHits == 4
NumThreads == 2
MaxUpserts == 4
MaxCallHits == 4

-----------------------------------------------------------------------------
(* Python values *)

NoneV == [t |-> "none"]
StrV(s) == [t |-> "str", v |-> s]
IntV(n) == [t |-> "int", v |-> n]
ListV(l) == [t |-> "list", v |-> l]

\* a string literal of the program that no request value is compared with
Lit(word) == StrV(<<word>>)

IsNone(x) == x = NoneV

\* bool(x) of Python, as used by `if x`, `not x`, `x or y`, all([...])
Truthy(x) ==
    CASE x.t = "none" -> FALSE
      [] x.t = "str"  -> Len(x.v) > 0
      [] x.t = "int"  -> x.v # 0
      [] x.t = "list" -> Len(x.v) > 0
      [] OTHER        -> TRUE

\* dict.get(k) / dict.get(k, default)
Get(d, k) == IF k \in DOMAIN d THEN d[k] ELSE NoneV
GetOr(d, k, dflt) == IF k \in DOMAIN d THEN d[k] ELSE dflt

\* d[k] = v
Put(d, k, v) == [x \in (DOMAIN d) \cup {k} |-> IF x = k THEN v ELSE d[x]]

\* d.update(e)
Update(d, e) ==
    [x \in (DOMAIN d) \cup (DOMAIN e) |-> IF x \in DOMAIN e THEN e[x] ELSE d[x]]

EmptyDict == [x \in {} |-> NoneV]

\* json.dumps(x): the serialized text of x
JsonDumps(x) == [t |-> "json", v |-> x]
\* json.loads(s)
JsonLoads(s) == s.v

-----------------------------------------------------------------------------
(* int(s): an optional sign followed by one or more decimal digits.  The   *)
(* blanks and underscores int() also accepts are not in any request value  *)
(* of the model.                                                           *)

DigitChars == {"0", "1", "2", "3", "4", "5", "6", "7", "8", "9"}

DigitVal(ch) ==
    CASE ch = "0" -> 0 [] ch = "1" -> 1 [] ch = "2" -> 2 [] ch = "3" -> 3
      [] ch = "4" -> 4 [] ch = "5" -> 5 [] ch = "6" -> 6 [] ch = "7" -> 7
      [] ch = "8" -> 8 [] ch = "9" -> 9

RECURSIVE DigitsVal(_)
DigitsVal(s) ==
    IF Len(s) = 0 THEN 0
    ELSE 10 * DigitsVal(SubSeq(s, 1, Len(s) - 1)) + DigitVal(s[Len(s)])

AllDigits(s) == Len(s) > 0 /\ \A i \in 1..Len(s) : s[i] \in DigitChars

\* [ok |-> FALSE] stands for ValueError
ParseInt(x) ==
    IF x.t = "int" THEN [ok |-> TRUE, v |-> x.v]
    ELSE IF x.t # "str" THEN [ok |-> FALSE, v |-> 0]
    ELSE IF Len(x.v) > 1 /\ x.v[1] = "-" /\ AllDigits(Tail(x.v))
         THEN [ok |-> TRUE, v |-> 0 - DigitsVal(Tail(x.v))]
    ELSE IF Len(x.v) > 1 /\ x.v[1] = "+" /\ AllDigits(Tail(x.v))
         THEN [ok |-> TRUE, v |-> DigitsVal(Tail(x.v))]
    ELSE IF AllDigits(x.v) THEN [ok |-> TRUE, v |-> DigitsVal(x.v)]
    ELSE [ok |-> FALSE, v |-> 0]

-----------------------------------------------------------------------------
(* Menu descriptors *)

NoNum == 0 - 1

Descriptor(type, name, keys, min, max, skip, doc) ==
    [http |-> 200, type |-> type, name |-> name, enabledKeys |-> keys,
     min |-> min, max |-> max, skipValue |-> skip, doc |-> doc]

SimpleMenu(name, keys) ==
    Descriptor("simpleMenu", name, keys, NoNum, NoNum, NoneV, NoneV)

GetDTMF(name, min, max) ==
    Descriptor("getDTMF", name, DigitChars, min, max, NoneV, NoneV)

\* jsonify({"error": ...}), status
HttpError(status) ==
    [http |-> status, type |-> "error", name |-> "error", enabledKeys |-> {},
     min |-> NoNum, max |-> NoNum, skipValue |-> NoneV, doc |-> NoneV]

show_error_and_return_to_main == SimpleMenu("systemError", {"0"})

handle_new_customer == SimpleMenu("newCustomer", {"1", "2"})

handle_subscription_renewal == SimpleMenu("renewSubscription", {"1", "2"})

show_main_menu == SimpleMenu("mainMenu", {"1", "2", "3", "4", "5", "6", "0"})

handle_create_receipt == GetDTMF("receiptAmount", 1, 7)

handle_cancel_receipt == GetDTMF("cancelReceiptId", 1, 10)

handle_update_personal_details == GetDTMF("numChildren", 1, 2)

handle_show_benefits == SimpleMenu("benefitsMenu", {"1", "0"})

handle_leave_message ==
    Descriptor("record", "customerMessage", {}, 3, 180, NoneV, NoneV)

handle_annual_report == SimpleMenu("annualReport", {"1", "0"})

NewCustomerIDPrompt == GetDTMF("newCustomerID", 8, 10)

OwnerAgePrompt == GetDTMF("ownerAge", 1, 2)

GenderMenu == SimpleMenu("gender", {"1", "2"})

RegistrationFail == SimpleMenu("registrationFail", {"0"})

ClientPhonePrompt == GetDTMF("clientPhone", 9, 11)

InvalidAmountMenu == SimpleMenu("invalidAmount", {"1", "0"})

ClientIdPrompt ==
    Descriptor("getDTMF", "clientIdNumber", DigitChars \cup {"#"}, 0, 10,
               StrV(<<>>), NoneV)

SaveContactMenu == SimpleMenu("saveContactChoice", {"1", "2"})

NoDescription ==
    StrV(<<"N", "O", "_", "D", "E", "S", "C", "R", "I", "P", "T", "I", "O", "N">>)

ReceiptDescriptionPrompt ==
    Descriptor("getDTMF", "receiptDescription", DigitChars \cup {"#"}, 1, 20,
               NoDescription, NoneV)

ReceiptSuccessMenu(doc_num) ==
    Descriptor("simpleMenu", "receiptSuccess", {"0"}, NoNum, NoNum, NoneV, doc_num)

ReceiptFailedMenu == SimpleMenu("receiptFailed", {"1", "0"})

ChildBirthYearName(k) == "child_birth_year_" \o ToString(k)

ChildBirthYearPrompt(k) == GetDTMF(ChildBirthYearName(k), 4, 4)

ask_spouse_workplaces(spouse_num) ==
    GetDTMF("spouse" \o ToString(spouse_num) \o "_workplaces", 1, 2)

DetailsUpdatedMenu == SimpleMenu("detailsUpdated", {"0"})

MessageReceivedMenu == SimpleMenu("messageReceived", {"0"})

ReportRequestedMenu == SimpleMenu("reportRequested", {"0"})

InvalidChoiceMenu == SimpleMenu("invalidChoice", {"0"})

-----------------------------------------------------------------------------
(* The repository (DatabaseHandler).  Every operation takes the world w,   *)
(* a record of the tables and the session map, and returns the world after *)
(* it, its return value and whether it raised.  Each operation commits on  *)
(* its own connection, so what it wrote stays when a later one raises.     *)

Ok(w, ret) == [w |-> w, ret |-> ret, exc |-> FALSE]
Raise(w) == [w |-> w, ret |-> NoneV, exc |-> TRUE]

\* the current date, as a day number (datetime.now().date())
Today == 1000
\* the current year (datetime.now().year)
CurrentYear == 2026
DEFAULT_SUBSCRIPTION_MONTHS == 12

\* a stored date: the text of a day in format "ymd" ('%Y-%m-%d'), "iso"
\* (any other ISO form, e.g. with a time part) or "bad" (no date at all)
DateText(fmt, day) == [t |-> "date", fmt |-> fmt, day |-> day]

\* UPDATE ... SET k = v for the columns named in kw
SetColumns(row, kw) ==
    [f \in DOMAIN row |-> IF f \in DOMAIN kw THEN kw[f] ELSE row[f]]

\* kwargs restricted to an allow-list
Allowed(kw, allowed) == [k \in (DOMAIN kw) \cap allowed |-> kw[k]]

\* cur.fetchone(): the first of the rows at the positions found, or None
FetchOne(table, found) ==
    IF found = {} THEN NoneV
    ELSE table[CHOOSE i \in found : \A j \in found : i <= j]

get_customer_by_phone(w, phone_number) ==
    FetchOne(w.customers,
             {i \in 1..Len(w.customers) :
                 /\ ~IsNone(phone_number)
                 /\ w.customers[i].phone_number = phone_number})

get_customer_by_id(w, customer_id) ==
    FetchOne(w.customers,
             {i \in 1..Len(w.customers) : w.customers[i].id = customer_id})

get_customer_details(w, customer_id) ==
    FetchOne(w.customer_details,
             {i \in 1..Len(w.customer_details) :
                 w.customer_details[i].customer_id = customer_id})

EmptyDetails(customer_id) ==
    [customer_id |-> customer_id, num_children |-> NoneV,
     children_birth_years |-> NoneV, spouse1_workplaces |-> NoneV,
     spouse2_workplaces |-> NoneV]

NewCustomerRow(id, phone_number) ==
    [id |-> id, phone_number |-> phone_number, tz_id |-> NoneV,
     owner_age |-> NoneV, gender |-> NoneV,
     subscription_end_date |->
         DateText("ymd", Today + 30 * DEFAULT_SUBSCRIPTION_MONTHS)]

\* create_customer on a table without the UNIQUE constraint on phone_number
create_customer_no_unique(w, phone_number) ==
    IF IsNone(phone_number) THEN Raise(w)
    ELSE LET customer_id == Len(w.customers) + 1
         IN  Ok([w EXCEPT
                   !.customers = Append(@, NewCustomerRow(customer_id, phone_number)),
                   !.customer_details = Append(@, EmptyDetails(customer_id))],
                customer_id)

\* phone_number is UNIQUE NOT NULL: the INSERT raises IntegrityError
create_customer(w, phone_number) ==
    IF IsNone(phone_number) \/ ~IsNone(get_customer_by_phone(w, phone_number))
    THEN Raise(w)
    ELSE LET customer_id == Len(w.customers) + 1
         IN  Ok([w EXCEPT
                   !.customers = Append(@, NewCustomerRow(customer_id, phone_number)),
                   !.customer_details = Append(@, EmptyDetails(customer_id))],
                customer_id)

CustomerColumns ==
    {"name", "email", "subscription_start_date", "subscription_end_date",
     "is_active", "business_name", "tz_id", "owner_age", "gender"}

update_customer(w, customer_id, kwargs) ==
    IF DOMAIN kwargs = {} \/ DOMAIN Allowed(kwargs, CustomerColumns) = {}
    THEN Ok(w, FALSE)
    ELSE Ok([w EXCEPT !.customers =
                [i \in 1..Len(@) |->
                    IF @[i].id = customer_id
                    THEN SetColumns(@[i], Allowed(kwargs, CustomerColumns))
                    ELSE @[i]]],
            \E i \in 1..Len(w.customers) : w.customers[i].id = customer_id)

ProfileColumns == {"name", "business_name", "tz_id", "owner_age", "gender", "email"}

update_customer_profile(w, customer_id, kwargs) ==
    update_customer(w, customer_id, Allowed(kwargs, ProfileColumns))

\* strptime('%Y-%m-%d'), then fromisoformat, then False
is_subscription_active_exclusive(customer) ==
    IF IsNone(customer) \/ ~Truthy(customer.subscription_end_date) THEN FALSE
    ELSE IF customer.subscription_end_date.t # "date" THEN FALSE
    ELSE IF customer.subscription_end_date.fmt \in {"ymd", "iso"}
         THEN customer.subscription_end_date.day > Today
    ELSE FALSE

is_subscription_active(customer) ==
    IF IsNone(customer) \/ ~Truthy(customer.subscription_end_date) THEN FALSE
    ELSE IF customer.subscription_end_date.t # "date" THEN FALSE
    ELSE IF customer.subscription_end_date.fmt \in {"ymd", "iso"}
         THEN customer.subscription_end_date.day >= Today
    ELSE FALSE

\* is_profile_complete testing owner_age for truth instead of `is not None`
is_profile_complete_age_truthy(w, customer) ==
    IF IsNone(customer) THEN FALSE
    ELSE LET basic_ok == /\ Truthy(customer.tz_id)
                         /\ Truthy(customer.owner_age)
                         /\ Truthy(customer.gender)
             details == get_customer_details(w, customer.id)
             kids_ok == ~IsNone(details) /\ ~IsNone(details.num_children)
         IN  basic_ok /\ kids_ok

is_profile_complete(w, customer) ==
    IF IsNone(customer) THEN FALSE
    ELSE LET basic_ok == /\ Truthy(customer.tz_id)
                         /\ ~IsNone(customer.owner_age)
                         /\ Truthy(customer.gender)
             details == get_customer_details(w, customer.id)
             kids_ok == ~IsNone(details) /\ ~IsNone(details.num_children)
         IN  basic_ok /\ kids_ok

DetailsColumns ==
    {"num_children", "children_birth_years", "spouse1_workplaces",
     "spouse2_workplaces", "additional_info"}

update_customer_details_always_inserts(w, customer_id, kwargs) ==
    Ok([w EXCEPT !.customer_details =
           Append(@, SetColumns(EmptyDetails(customer_id),
                                Allowed(kwargs, DetailsColumns)))],
       TRUE)

update_customer_details(w, customer_id, kwargs) ==
    IF ~IsNone(get_customer_details(w, customer_id))
    THEN IF DOMAIN Allowed(kwargs, DetailsColumns) = {} THEN Ok(w, FALSE)
         ELSE Ok([w EXCEPT !.customer_details =
                     [i \in 1..Len(@) |->
                         IF @[i].customer_id = customer_id
                         THEN SetColumns(@[i], Allowed(kwargs, DetailsColumns))
                         ELSE @[i]]],
                 TRUE)
    ELSE Ok([w EXCEPT !.customer_details =
                Append(@, SetColumns(EmptyDetails(customer_id),
                                     Allowed(kwargs, DetailsColumns)))],
            TRUE)

\* INSERT OR REPLACE INTO calls: call_id is UNIQUE NOT NULL, a row of the
\* same call_id is deleted and the new row takes its place
log_call(w, call_params) ==
    LET phone == Get(call_params, "PBXphone")
        cust == IF Truthy(phone) THEN get_customer_by_phone(w, phone) ELSE NoneV
        customer_id == IF IsNone(cust) THEN NoneV ELSE IntV(cust.id)
        call_id == Get(call_params, "PBXcallId")
        row == [call_id |-> call_id, phone_number |-> phone,
                customer_id |-> customer_id,
                pbx_num |-> Get(call_params, "PBXnum"),
                call_data |-> JsonDumps(call_params)]
        Other(r) == r.call_id # call_id
    IN  IF IsNone(call_id) THEN Raise(w)
        ELSE Ok([w EXCEPT !.calls = Append(SelectSeq(@, Other), row)], NoneV)

\* update_call_data storing new_data in place of the merged bag
update_call_data_replaces(w, call_id, new_data) ==
    IF \A i \in 1..Len(w.calls) : w.calls[i].call_id # call_id THEN Ok(w, FALSE)
    ELSE Ok([w EXCEPT !.calls =
                [i \in 1..Len(@) |->
                    IF @[i].call_id = call_id
                    THEN [@[i] EXCEPT !.call_data = JsonDumps(new_data)]
                    ELSE @[i]]],
            TRUE)

update_call_data_creates(w, call_id, new_data) ==
    IF \A i \in 1..Len(w.calls) : w.calls[i].call_id # call_id
    THEN Ok([w EXCEPT !.calls = Append(@,
                [call_id |-> call_id, phone_number |-> NoneV,
                 customer_id |-> NoneV, pbx_num |-> NoneV,
                 call_data |-> JsonDumps(new_data)])],
            TRUE)
    ELSE Ok([w EXCEPT !.calls =
                [i \in 1..Len(@) |->
                    IF @[i].call_id = call_id
                    THEN [@[i] EXCEPT !.call_data =
                             JsonDumps(Update(JsonLoads(@), new_data))]
                    ELSE @[i]]],
            TRUE)

update_call_data(w, call_id, new_data) ==
    IF \A i \in 1..Len(w.calls) : w.calls[i].call_id # call_id THEN Ok(w, FALSE)
    ELSE Ok([w EXCEPT !.calls =
                [i \in 1..Len(@) |->
                    IF @[i].call_id = call_id
                    THEN [@[i] EXCEPT !.call_data =
                             JsonDumps(Update(JsonLoads(@), new_data))]
                    ELSE @[i]]],
            TRUE)

\* INSERT INTO receipts: status takes its default, 'pending'
create_receipt(w, customer_id, call_id, receipt_data) ==
    LET rid == Len(w.receipts) + 1
    IN  Ok([w EXCEPT !.receipts = Append(@,
               [id |-> rid, customer_id |-> customer_id, call_id |-> call_id,
                receipt_data |-> JsonDumps(receipt_data),
                amount |-> GetOr(receipt_data, "amount", IntV(0)),
                description |-> GetOr(receipt_data, "description", StrV(<<>>)),
                status |-> Lit("pending"),
                client_contact_id |-> NoneV, icount_doc_id |-> NoneV,
                icount_doc_num |-> NoneV, icount_response |-> NoneV])],
           rid)

ReceiptColumns ==
    {"icount_doc_id", "icount_doc_num", "icount_response", "amount",
     "description", "status", "client_contact_id"}

update_receipt(w, receipt_id, kwargs) ==
    IF DOMAIN kwargs = {} \/ DOMAIN Allowed(kwargs, ReceiptColumns) = {}
    THEN Ok(w, FALSE)
    ELSE Ok([w EXCEPT !.receipts =
                [i \in 1..Len(@) |->
                    IF @[i].id = receipt_id
                    THEN SetColumns(@[i], Allowed(kwargs, ReceiptColumns))
                    ELSE @[i]]],
            receipt_id \in 1..Len(w.receipts))

save_message(w, customer_id, call_id, message_file) ==
    Ok([w EXCEPT !.messages = Append(@,
           [customer_id |-> customer_id, call_id |-> call_id,
            message_file |-> message_file, status |-> Lit("new")])],
       Len(w.messages) + 1)

\* INSERT OR REPLACE on UNIQUE(customer_id, report_year)
request_annual_report_appends(w, customer_id) ==
    Ok([w EXCEPT !.annual_reports = Append(@,
           [customer_id |-> customer_id, report_year |-> CurrentYear - 1,
            status |-> Lit("requested")])],
       NoneV)

request_annual_report(w, customer_id) ==
    LET report_year == CurrentYear - 1
        Other(r) == ~(r.customer_id = customer_id /\ r.report_year = report_year)
    IN  Ok([w EXCEPT !.annual_reports = Append(SelectSeq(@, Other),
               [customer_id |-> customer_id, report_year |-> report_year,
                status |-> Lit("requested")])],
           NoneV)

\* COALESCE(?, column)
Coalesce(new, old) == IF IsNone(new) THEN old ELSE new

\* `phone = ?` matches no row when the argument is NULL
get_contact_by_phone(w, customer_id, phone) ==
    FetchOne(w.contacts,
             {i \in 1..Len(w.contacts) :
                 /\ w.contacts[i].customer_id = customer_id
                 /\ ~IsNone(phone)
                 /\ w.contacts[i].phone = phone})

upsert_contact_always_inserts(w, customer_id, phone, name, tz_id, business_name, email, notes) ==
    Ok([w EXCEPT !.contacts = Append(@,
           [id |-> Len(w.contacts) + 1, customer_id |-> customer_id,
            phone |-> phone, name |-> name, tz_id |-> tz_id,
            business_name |-> business_name, email |-> email,
            notes |-> notes])],
       Len(w.contacts) + 1)

upsert_contact_overwrites(w, customer_id, phone, name, tz_id, business_name, email, notes) ==
    LET row == get_contact_by_phone(w, customer_id, phone)
    IN  IF ~IsNone(row)
        THEN Ok([w EXCEPT !.contacts =
                    [i \in 1..Len(@) |->
                        IF @[i].id = row.id
                        THEN [@[i] EXCEPT
                                !.name = name, !.tz_id = tz_id,
                                !.business_name = business_name,
                                !.email = email, !.notes = notes]
                        ELSE @[i]]],
                row.id)
        ELSE Ok([w EXCEPT !.contacts = Append(@,
                    [id |-> Len(w.contacts) + 1, customer_id |-> customer_id,
                     phone |-> phone, name |-> name, tz_id |-> tz_id,
                     business_name |-> business_name, email |-> email,
                     notes |-> notes])],
                Len(w.contacts) + 1)

upsert_contact(w, customer_id, phone, name, tz_id, business_name, email, notes) ==
    LET row == get_contact_by_phone(w, customer_id, phone)
    IN  IF ~IsNone(row)
        THEN Ok([w EXCEPT !.contacts =
                    [i \in 1..Len(@) |->
                        IF @[i].id = row.id
                        THEN [@[i] EXCEPT
                                !.name = Coalesce(name, @),
                                !.tz_id = Coalesce(tz_id, @),
                                !.business_name = Coalesce(business_name, @),
                                !.email = Coalesce(email, @),
                                !.notes = Coalesce(notes, @)]
                        ELSE @[i]]],
                row.id)
        ELSE Ok([w EXCEPT !.contacts = Append(@,
                    [id |-> Len(w.contacts) + 1, customer_id |-> customer_id,
                     phone |-> phone, name |-> name, tz_id |-> tz_id,
                     business_name |-> business_name, email |-> email,
                     notes |-> notes])],
                Len(w.contacts) + 1)

-----------------------------------------------------------------------------
(* PBXHandler.  A handler returns the world after it, the descriptor it    *)
(* returns and whether it raised instead.                                  *)

Reply(w, resp) == [w |-> w, resp |-> resp, exc |-> FALSE]
Throw(w) == [w |-> w, resp |-> HttpError(500), exc |-> TRUE]

\* every call reading the session of call c1
Session_shared(w, call_id) ==
    GetOr(w.current_calls, StrV(<<"c", "1">>), EmptyDict)

\* self.current_calls.get(call_id, {})
Session(w, call_id) == GetOr(w.current_calls, call_id, EmptyDict)

\* cd = self.current_calls.setdefault(call_id, {}); cd[k] = v
SessionPut(w, call_id, k, v) ==
    [w EXCEPT !.current_calls = Put(@, call_id, Put(Session(w, call_id), k, v))]

\* self.current_calls.setdefault(call_id, {}).update(d)
SessionUpdate_replaces(w, call_id, d) ==
    [w EXCEPT !.current_calls = Put(@, call_id, d)]

SessionUpdate(w, call_id, d) ==
    [w EXCEPT !.current_calls = Put(@, call_id, Update(Session(w, call_id), d))]

Kw1(k, v) == [x \in {k} |-> v]

\* the engine with the gender step placed before the age step
require_profile_or_main_gender_first(w, call_id, phone) ==
    LET customer == get_customer_by_phone(w, phone)
        details == get_customer_details(w, customer.id)
    IN  IF IsNone(customer) THEN handle_new_customer
        ELSE IF ~is_profile_complete(w, customer)
             THEN IF ~Truthy(customer.tz_id) THEN NewCustomerIDPrompt
                  ELSE IF ~Truthy(customer.gender) THEN GenderMenu
                  ELSE IF IsNone(customer.owner_age) THEN OwnerAgePrompt
                  ELSE IF IsNone(details) \/ IsNone(details.num_children)
                       THEN handle_update_personal_details
                  ELSE show_main_menu
        ELSE show_main_menu

require_profile_or_main(w, call_id, phone) ==
    LET customer == get_customer_by_phone(w, phone)
        details == get_customer_details(w, customer.id)
    IN  IF IsNone(customer) THEN handle_new_customer
        ELSE IF ~is_profile_complete(w, customer)
             THEN IF ~Truthy(customer.tz_id) THEN NewCustomerIDPrompt
                  ELSE IF IsNone(customer.owner_age) THEN OwnerAgePrompt
                  ELSE IF ~Truthy(customer.gender) THEN GenderMenu
                  ELSE IF IsNone(details) \/ IsNone(details.num_children)
                       THEN handle_update_personal_details
                  ELSE show_main_menu
        ELSE show_main_menu

Choice1 == StrV(<<"1">>)
Choice2 == StrV(<<"2">>)

process_new_customer_choice(w, call_id, choice) ==
    IF choice = Choice1 THEN Reply(w, NewCustomerIDPrompt)
    ELSE Reply(w, show_main_menu)

process_new_customer_id_no_tz(w, call_id, tz) ==
    LET phone == Get(Session(w, call_id), "PBXphone")
        cust0 == get_customer_by_phone(w, phone)
        created == IF IsNone(cust0) THEN create_customer(w, phone) ELSE Ok(w, 0)
        w1 == created.w
    IN  IF ~Truthy(phone) THEN Reply(w, show_main_menu)
        ELSE IF created.exc THEN Reply(w1, RegistrationFail)
        ELSE Reply(w1, require_profile_or_main(w1, call_id, phone))

process_new_customer_id(w, call_id, tz) ==
    LET phone == Get(Session(w, call_id), "PBXphone")
        cust0 == get_customer_by_phone(w, phone)
        created == IF IsNone(cust0) THEN create_customer(w, phone) ELSE Ok(w, 0)
        w1 == created.w
        cust == IF IsNone(cust0) THEN get_customer_by_id(w1, created.ret) ELSE cust0
        w2 == IF IsNone(cust) THEN w1
              ELSE update_customer_profile(w1, cust.id, Kw1("tz_id", tz)).w
    IN  IF ~Truthy(phone) THEN Reply(w, show_main_menu)
        ELSE IF created.exc THEN Reply(w1, RegistrationFail)
        ELSE Reply(w2, require_profile_or_main(w2, call_id, phone))

MinOwnerAge == 14
MaxOwnerAge == 99

\* process_owner_age without the range check
process_owner_age_any_number(w, call_id, age) ==
    LET phone == Get(Session(w, call_id), "PBXphone")
        age_i == ParseInt(age)
        cust == get_customer_by_phone(w, phone)
        w1 == IF age_i.ok /\ ~IsNone(cust)
              THEN update_customer_profile(w, cust.id,
                                           Kw1("owner_age", IntV(age_i.v))).w
              ELSE w
    IN  Reply(w1, require_profile_or_main(w1, call_id, phone))

process_owner_age(w, call_id, age) ==
    LET phone == Get(Session(w, call_id), "PBXphone")
        age_i == ParseInt(age)
        cust == get_customer_by_phone(w, phone)
        w1 == IF age_i.ok /\ ~(age_i.v < MinOwnerAge \/ age_i.v > MaxOwnerAge)
                 /\ ~IsNone(cust)
              THEN update_customer_profile(w, cust.id,
                                           Kw1("owner_age", IntV(age_i.v))).w
              ELSE w
    IN  Reply(w1, require_profile_or_main(w1, call_id, phone))

process_gender(w, call_id, choice) ==
    LET phone == Get(Session(w, call_id), "PBXphone")
        val == IF choice = Choice1 THEN Lit("male")
               ELSE IF choice = Choice2 THEN Lit("female") ELSE NoneV
        cust == get_customer_by_phone(w, phone)
        w1 == IF ~IsNone(cust) /\ Truthy(val)
              THEN update_customer_profile(w, cust.id, Kw1("gender", val)).w
              ELSE w
    IN  Reply(w1, require_profile_or_main(w1, call_id, phone))

process_main_menu_choice(w, call_id, choice) ==
    Reply(w, CASE choice = StrV(<<"1">>) -> handle_create_receipt
               [] choice = StrV(<<"2">>) -> handle_cancel_receipt
               [] choice = StrV(<<"3">>) -> handle_update_personal_details
               [] choice = StrV(<<"4">>) -> handle_show_benefits
               [] choice = StrV(<<"5">>) -> handle_leave_message
               [] choice = StrV(<<"6">>) -> handle_annual_report
               [] OTHER -> show_main_menu)

(* ---------- receipt flow ---------- *)

SkipAmount == StrV(<<"S", "K", "I", "P">>)

\* process_receipt_amount rejecting only negative amounts
process_receipt_amount_accepts_zero(w, call_id, amount) ==
    LET amt == ParseInt(amount)
    IN  IF amount = SkipAmount THEN Reply(w, show_main_menu)
        ELSE IF amt.ok /\ ~(amt.v < 0) THEN Reply(w, ClientPhonePrompt)
        ELSE Reply(w, InvalidAmountMenu)

process_receipt_amount(w, call_id, amount) ==
    LET amt == ParseInt(amount)
    IN  IF amount = SkipAmount THEN Reply(w, show_main_menu)
        ELSE IF amt.ok /\ ~(amt.v <= 0) THEN Reply(w, ClientPhonePrompt)
        ELSE Reply(w, InvalidAmountMenu)

process_client_phone(w, call_id, phone) ==
    Reply(SessionPut(w, call_id, "client_phone", phone), ClientIdPrompt)

process_client_id(w, call_id, tz) ==
    Reply(SessionPut(w, call_id, "client_tz", IF Truthy(tz) THEN tz ELSE NoneV),
          SaveContactMenu)

\* process_save_contact_choice saving whatever the choice is
process_save_contact_choice_always_saves(w, call_id, choice) ==
    LET cd == Session(w, call_id)
        issuer == get_customer_by_phone(w, Get(cd, "PBXphone"))
        w1 == IF ~IsNone(issuer)
              THEN upsert_contact(w, issuer.id, Get(cd, "client_phone"), NoneV,
                                  Get(cd, "client_tz"), NoneV, NoneV,
                                  Lit("added_via_ivr")).w
              ELSE w
    IN  Reply(w1, ReceiptDescriptionPrompt)

process_save_contact_choice(w, call_id, choice) ==
    LET cd == Session(w, call_id)
        issuer == get_customer_by_phone(w, Get(cd, "PBXphone"))
        w1 == IF ~IsNone(issuer) /\ choice = Choice1
              THEN upsert_contact(w, issuer.id, Get(cd, "client_phone"), NoneV,
                                  Get(cd, "client_tz"), NoneV, NoneV,
                                  Lit("added_via_ivr")).w
              ELSE w
    IN  Reply(w1, ReceiptDescriptionPrompt)

DefaultDescription == Lit("receipt")

\* process_receipt_description up to the call of the provider: `pending` is
\* the receipt waiting for the provider's answer, or None when the handler
\* has returned (or raised) before calling it
receipt_description_begin(w, call_id, description) ==
    LET cd == Session(w, call_id)
        amount == Get(cd, "receiptAmount")
        issuer == get_customer_by_phone(w, Get(cd, "PBXphone"))
        client_phone == Get(cd, "client_phone")
        contact == IF Truthy(client_phone)
                   THEN get_contact_by_phone(w, issuer.id, client_phone)
                   ELSE NoneV
        client_contact_id == IF IsNone(contact) THEN NoneV ELSE IntV(contact.id)
        receipt_data ==
            [amount |-> IntV(ParseInt(amount).v),
             description |-> IF description # NoDescription THEN description
                             ELSE DefaultDescription,
             client_phone |-> client_phone,
             client_tz |-> Get(cd, "client_tz")]
        created == create_receipt(w, issuer.id, call_id, receipt_data)
        w2 == IF Truthy(client_contact_id)
              THEN update_receipt(created.w, created.ret,
                                  Kw1("client_contact_id", client_contact_id)).w
              ELSE created.w
    IN  IF ~(Truthy(amount) /\ ~IsNone(issuer))
        THEN [w |-> w, resp |-> show_error_and_return_to_main, exc |-> FALSE,
              pending |-> NoneV]
        ELSE IF ~ParseInt(amount).ok
        THEN [w |-> w, resp |-> HttpError(500), exc |-> TRUE, pending |-> NoneV]
        ELSE [w |-> w2, resp |-> NoneV, exc |-> FALSE,
              pending |-> [receipt_id |-> created.ret, receipt_data |-> receipt_data]]

\* the outcomes of icount.create_receipt(receipt_data): a result dict, or an
\* exception (raised |-> TRUE)
ProviderResult(status, doc_id, doc_num) ==
    [raised |-> FALSE, status |-> status, doc_id |-> doc_id, doc_num |-> doc_num]
ProviderRaised ==
    [raised |-> TRUE, status |-> FALSE, doc_id |-> NoneV, doc_num |-> NoneV]

\* the failure branch without its status: the row stays pending
receipt_description_finish_no_failed(w, receipt_id, icount_result) ==
    IF icount_result.raised THEN Throw(w)
    ELSE IF icount_result.status
    THEN Reply(update_receipt(w, receipt_id,
                   [icount_doc_id |-> icount_result.doc_id,
                    icount_doc_num |-> icount_result.doc_num,
                    icount_response |-> JsonDumps(icount_result),
                    status |-> Lit("completed")]).w,
               ReceiptSuccessMenu(icount_result.doc_num))
    ELSE Reply(update_receipt(w, receipt_id,
                   [icount_response |-> JsonDumps(icount_result)]).w,
               ReceiptFailedMenu)

\* process_receipt_description from the provider's answer on
receipt_description_finish(w, receipt_id, icount_result) ==
    IF icount_result.raised THEN Throw(w)
    ELSE IF icount_result.status
    THEN Reply(update_receipt(w, receipt_id,
                   [icount_doc_id |-> icount_result.doc_id,
                    icount_doc_num |-> icount_result.doc_num,
                    icount_response |-> JsonDumps(icount_result),
                    status |-> Lit("completed")]).w,
               ReceiptSuccessMenu(icount_result.doc_num))
    ELSE Reply(update_receipt(w, receipt_id,
                   [icount_response |-> JsonDumps(icount_result),
                    status |-> Lit("failed")]).w,
               ReceiptFailedMenu)

(* ---------- personal details ---------- *)

MaxChildren == 20
MaxBirthYearAge == 50
MaxWorkplaces == 10

process_children_count_persists(w, call_id, num_children) ==
    LET n == ParseInt(num_children)
        w1 == SessionPut(SessionPut(w, call_id, "children_count", IntV(n.v)),
                         call_id, "current_child", IntV(1))
        cust == get_customer_by_phone(w1, Get(Session(w1, call_id), "PBXphone"))
        w2 == IF IsNone(cust) THEN w1
              ELSE update_customer_details(w1, cust.id,
                                           Kw1("num_children", IntV(n.v))).w
    IN  IF ~n.ok \/ n.v < 0 \/ n.v > MaxChildren
        THEN Reply(w, show_error_and_return_to_main)
        ELSE IF n.v = 0 THEN Reply(w2, ask_spouse_workplaces(1))
        ELSE Reply(w2, ChildBirthYearPrompt(1))

\* process_children_count storing the count before it validates it
process_children_count_stores_first(w, call_id, num_children) ==
    LET n == ParseInt(num_children)
        w1 == SessionPut(SessionPut(w, call_id, "children_count", IntV(n.v)),
                         call_id, "current_child", IntV(1))
    IN  IF ~n.ok \/ n.v < 0 \/ n.v > MaxChildren
        THEN Reply(w1, show_error_and_return_to_main)
        ELSE IF n.v = 0 THEN Reply(w1, ask_spouse_workplaces(1))
        ELSE Reply(w1, ChildBirthYearPrompt(1))

process_children_count(w, call_id, num_children) ==
    LET n == ParseInt(num_children)
        w1 == SessionPut(SessionPut(w, call_id, "children_count", IntV(n.v)),
                         call_id, "current_child", IntV(1))
    IN  IF ~n.ok \/ n.v < 0 \/ n.v > MaxChildren
        THEN Reply(w, show_error_and_return_to_main)
        ELSE IF n.v = 0 THEN Reply(w1, ask_spouse_workplaces(1))
        ELSE Reply(w1, ChildBirthYearPrompt(1))

\* process_child_birth_year comparing the cursor with <= instead of <
process_child_birth_year_off_by_one(w, call_id, input_name, birth_year) ==
    LET year == ParseInt(birth_year)
        cd == Session(w, call_id)
        lst == GetOr(cd, "children_birth_years", ListV(<<>>))
        w1 == SessionPut(w, call_id, "children_birth_years",
                         ListV(Append(lst.v, year.v)))
        current_child == GetOr(cd, "current_child", IntV(1)).v
        total_children == GetOr(cd, "children_count", IntV(0)).v
    IN  IF ~year.ok \/ year.v < CurrentYear - MaxBirthYearAge \/ year.v > CurrentYear
        THEN Reply(w, show_error_and_return_to_main)
        ELSE IF current_child <= total_children
        THEN Reply(SessionPut(w1, call_id, "current_child", IntV(current_child + 1)),
                   ChildBirthYearPrompt(current_child + 1))
        ELSE Reply(w1, ask_spouse_workplaces(1))

process_child_birth_year(w, call_id, input_name, birth_year) ==
    LET year == ParseInt(birth_year)
        cd == Session(w, call_id)
        lst == GetOr(cd, "children_birth_years", ListV(<<>>))
        w1 == SessionPut(w, call_id, "children_birth_years",
                         ListV(Append(lst.v, year.v)))
        current_child == GetOr(cd, "current_child", IntV(1)).v
        total_children == GetOr(cd, "children_count", IntV(0)).v
    IN  IF ~year.ok \/ year.v < CurrentYear - MaxBirthYearAge \/ year.v > CurrentYear
        THEN Reply(w, show_error_and_return_to_main)
        ELSE IF current_child < total_children
        THEN Reply(SessionPut(w1, call_id, "current_child", IntV(current_child + 1)),
                   ChildBirthYearPrompt(current_child + 1))
        ELSE Reply(w1, ask_spouse_workplaces(1))

process_spouse_workplaces(w, call_id, input_name, workplaces) ==
    LET count == ParseInt(workplaces)
        w1 == SessionPut(w, call_id, input_name, IntV(count.v))
        cd == Session(w1, call_id)
        cust == get_customer_by_phone(w1, Get(cd, "PBXphone"))
        w2 == IF IsNone(cust) THEN w1
              ELSE update_customer_details(w1, cust.id,
                       [num_children |-> GetOr(cd, "children_count", IntV(0)),
                        children_birth_years |->
                            JsonDumps(GetOr(cd, "children_birth_years", ListV(<<>>))),
                        spouse1_workplaces |-> GetOr(cd, "spouse1_workplaces", IntV(0)),
                        spouse2_workplaces |-> GetOr(cd, "spouse2_workplaces", IntV(0))]).w
    IN  IF ~count.ok \/ count.v < 0 \/ count.v > MaxWorkplaces
        THEN Reply(w, show_error_and_return_to_main)
        ELSE IF input_name = "spouse1_workplaces"
        THEN Reply(w1, ask_spouse_workplaces(2))
        ELSE Reply(w2, DetailsUpdatedMenu)

process_customer_message(w, call_id, message_result) ==
    LET cust == get_customer_by_phone(w, Get(Session(w, call_id), "PBXphone"))
        w1 == IF ~IsNone(cust) /\ Truthy(message_result)
              THEN save_message(w, cust.id, call_id, message_result).w
              ELSE w
    IN  Reply(w1, MessageReceivedMenu)

process_annual_report_choice(w, call_id, choice) ==
    LET cust == get_customer_by_phone(w, Get(Session(w, call_id), "PBXphone"))
        w1 == IF ~IsNone(cust) THEN request_annual_report(w, cust.id).w ELSE w
    IN  IF choice = Choice1 THEN Reply(w1, ReportRequestedMenu)
        ELSE Reply(w, show_main_menu)

(* ---------- input routing ---------- *)

Returned(r) == [w |-> r.w, resp |-> r.resp, exc |-> r.exc, pending |-> NoneV]

\* input_name.startswith('child_birth_year_'), over the names the server issues
IsChildBirthYearName(input_name) ==
    input_name \in {ChildBirthYearName(k) : k \in 1..MaxChildren}

handle_user_input(w, call_id, input_name, input_value) ==
    LET w1 == SessionPut(w, call_id, input_name, input_value)
        w2 == update_call_data(w1, call_id, Kw1(input_name, input_value)).w
    IN  CASE input_name = "newCustomer" ->
               Returned(process_new_customer_choice(w2, call_id, input_value))
          [] input_name = "newCustomerID" ->
               Returned(process_new_customer_id(w2, call_id, input_value))
          [] input_name = "renewSubscription" ->
               \* self.process_renewal_choice is not defined: AttributeError
               Returned(Throw(w2))
          [] input_name = "mainMenu" ->
               Returned(process_main_menu_choice(w2, call_id, input_value))
          [] input_name = "ownerAge" ->
               Returned(process_owner_age(w2, call_id, input_value))
          [] input_name = "gender" ->
               Returned(process_gender(w2, call_id, input_value))
          [] input_name = "numChildren" ->
               Returned(process_children_count(w2, call_id, input_value))
          [] IsChildBirthYearName(input_name) ->
               Returned(process_child_birth_year(w2, call_id, input_name, input_value))
          [] input_name \in {"spouse1_workplaces", "spouse2_workplaces"} ->
               Returned(process_spouse_workplaces(w2, call_id, input_name, input_value))
          [] input_name = "customerMessage" ->
               Returned(process_customer_message(w2, call_id, input_value))
          [] input_name = "annualReport" ->
               Returned(process_annual_report_choice(w2, call_id, input_value))
          [] input_name = "receiptAmount" ->
               Returned(process_receipt_amount(w2, call_id, input_value))
          [] input_name = "clientPhone" ->
               Returned(process_client_phone(w2, call_id, input_value))
          [] input_name = "clientIdNumber" ->
               Returned(process_client_id(w2, call_id, input_value))
          [] input_name = "saveContactChoice" ->
               Returned(process_save_contact_choice(w2, call_id, input_value))
          [] input_name = "receiptDescription" ->
               receipt_description_begin(w2, call_id, input_value)
          [] OTHER -> Returned(Reply(w2, show_main_menu))

(* ---------- routes ---------- *)

EmptyStr == StrV(<<>>)

core_keys == {"PBXphone", "PBXnum"}

\* {k: args.get(k) for k in core_keys if args.get(k)}
CoreOf(args) == [k \in {x \in core_keys : Truthy(Get(args, x))} |-> args[k]]

KnownKeys ==
    <<"newCustomer", "renewSubscription", "mainMenu", "newCustomerID", "ownerAge",
      "gender", "receiptAmount", "clientPhone", "clientIdNumber",
      "saveContactChoice", "receiptDescription", "cancelReceiptId", "numChildren",
      "spouse1_workplaces", "spouse2_workplaces", "annualReport", "customerMessage">>

\* the first known key present in the request, 0 when there is none
FirstKnown(args) ==
    IF \E i \in 1..Len(KnownKeys) : KnownKeys[i] \in DOMAIN args
    THEN CHOOSE i \in 1..Len(KnownKeys) :
            /\ KnownKeys[i] \in DOMAIN args
            /\ \A j \in 1..(i - 1) : KnownKeys[j] \notin DOMAIN args
    ELSE 0

\* GET /pbx/menu/<menu_name>
handle_menu_choice(w, menu_name, args) ==
    LET call_id == IF Truthy(Get(args, "PBXcallId")) THEN args["PBXcallId"]
                   ELSE EmptyStr
        w1 == IF Truthy(call_id) THEN SessionUpdate(w, call_id, CoreOf(args)) ELSE w
        k == FirstKnown(args)
        name == IF IsNone(Get(args, menu_name)) /\ k # 0 THEN KnownKeys[k]
                ELSE menu_name
        value == Get(args, name)
    IN  IF ~Truthy(value)
        THEN [w |-> w1, resp |-> InvalidChoiceMenu, exc |-> FALSE, pending |-> NoneV]
        ELSE handle_user_input(w1, call_id, name, value)

PBXKeys == {"PBXphone", "PBXnum", "PBXcallId"}

\* GET /pbx
handle_pbx_request_no_subscription_check(w, args) ==
    LET call_params == [k \in PBXKeys \cup (DOMAIN args) |-> Get(args, k)]
        logged == log_call(w, call_params)
        phone == Get(call_params, "PBXphone")
        call_id == IF Truthy(Get(call_params, "PBXcallId"))
                   THEN call_params["PBXcallId"] ELSE EmptyStr
        w2 == SessionUpdate(logged.w, call_id, CoreOf(call_params))
        customer == get_customer_by_phone(w2, phone)
    IN  IF logged.exc THEN Throw(w)
        ELSE IF ~Truthy(phone) THEN Reply(w2, HttpError(400))
        ELSE IF IsNone(customer) THEN Reply(w2, handle_new_customer)
        ELSE Reply(w2, require_profile_or_main(w2, call_id, phone))

handle_pbx_request(w, args) ==
    LET call_params == [k \in PBXKeys \cup (DOMAIN args) |-> Get(args, k)]
        logged == log_call(w, call_params)
        phone == Get(call_params, "PBXphone")
        call_id == IF Truthy(Get(call_params, "PBXcallId"))
                   THEN call_params["PBXcallId"] ELSE EmptyStr
        w2 == SessionUpdate(logged.w, call_id, CoreOf(call_params))
        customer == get_customer_by_phone(w2, phone)
    IN  IF logged.exc THEN Throw(w)
        ELSE IF ~Truthy(phone) THEN Reply(w2, HttpError(400))
        ELSE IF IsNone(customer) THEN Reply(w2, handle_new_customer)
        ELSE IF ~is_subscription_active(customer)
             THEN Reply(w2, handle_subscription_renewal)
        ELSE Reply(w2, require_profile_or_main(w2, call_id, phone))

-----------------------------------------------------------------------------
(* The server: one hit at a time *)

World ==
    [customers |-> customers, customer_details |-> customer_details,
     calls |-> calls, receipts |-> receipts, contacts |-> contacts,
     messages |-> messages, annual_reports |-> annual_reports,
     current_calls |-> current_calls]

Commit(w) ==
    /\ customers' = w.customers
    /\ customer_details' = w.customer_details
    /\ calls' = w.calls
    /\ receipts' = w.receipts
    /\ contacts' = w.contacts
    /\ messages' = w.messages
    /\ annual_reports' = w.annual_reports
    /\ current_calls' = w.current_calls

Idle == IsNone(inflight)

\* the call id the PBX files a response under
CallOf(args) ==
    IF Truthy(Get(args, "PBXcallId")) THEN args["PBXcallId"] ELSE EmptyStr

\* what the model keeps of the last hit served: the request, the response,
\* and for a receipt description the provider's outcome and the receipt row
Served(route, menu_name, args, resp, provider, receipt_id) ==
    /\ last' = [route |-> route, menu_name |-> menu_name, args |-> args,
                resp |-> resp, provider |-> provider, receipt_id |-> receipt_id]
    /\ prompt' = Put(prompt, CallOf(args), resp)

\* the initial hit of a call
PbxRequest(args) ==
    /\ Idle
    /\ hits < MaxHits
    /\ LET r == handle_pbx_request(World, args)
       IN  /\ Commit(r.w)
           /\ Served("pbx", "", args, r.resp, NoneV, 0)
    /\ hits' = hits + 1
    /\ UNCHANGED <<inflight, threads>>

\* a menu hit; a receipt description that reaches the provider stays in
\* flight until the provider answers
MenuRequest(menu_name, args) ==
    /\ Idle
    /\ hits < MaxHits
    /\ LET r == handle_menu_choice(World, menu_name, args)
       IN  /\ Commit(r.w)
           /\ IF IsNone(r.pending)
              THEN /\ Served("menu", menu_name, args, r.resp, NoneV, 0)
                   /\ UNCHANGED inflight
              ELSE /\ inflight' = [menu_name |-> menu_name, args |-> args,
                                   receipt_id |-> r.pending.receipt_id,
                                   receipt_data |-> r.pending.receipt_data]
                   /\ UNCHANGED <<last, prompt>>
    /\ hits' = hits + 1
    /\ UNCHANGED threads

\* icount.create_receipt returns or raises, and the handler finishes
ProviderReturns(icount_result) ==
    /\ ~Idle
    /\ LET r == receipt_description_finish(World, inflight.receipt_id, icount_result)
       IN  /\ Commit(r.w)
           /\ Served("menu", inflight.menu_name, inflight.args, r.resp,
                     icount_result, inflight.receipt_id)
    /\ inflight' = NoneV
    /\ UNCHANGED <<hits, threads>>

\* the PBX answers the descriptor it last got for the call
Answering(call_id, menu_name) ==
    /\ call_id \in DOMAIN prompt
    /\ prompt[call_id].http = 200
    /\ prompt[call_id].name = menu_name

\* the request of a PBX that answers menu_name with value
MenuArgs(call_id, menu_name, value) ==
    [k \in {"PBXcallId", menu_name} |-> IF k = "PBXcallId" THEN call_id ELSE value]

Answer(call_id, menu_name, value) ==
    /\ Answering(call_id, menu_name)
    /\ MenuRequest(menu_name, MenuArgs(call_id, menu_name, value))

-----------------------------------------------------------------------------
(* The hits of the PBX, one action per handler *)

InitialCall(call_id, phone) ==
    PbxRequest([k \in {"PBXcallId", "PBXphone"} |->
                   IF k = "PBXcallId" THEN call_id ELSE phone])

\* a hit that carries no caller phone
InitialCallNoPhone(call_id) == PbxRequest(Kw1("PBXcallId", call_id))

NewCustomerChoice(c, v) == Answer(c, "newCustomer", v)
NewCustomerId(c, v) == Answer(c, "newCustomerID", v)
RenewSubscription(c, v) == Answer(c, "renewSubscription", v)
MainMenuChoice(c, v) == Answer(c, "mainMenu", v)
OwnerAge(c, v) == Answer(c, "ownerAge", v)
Gender(c, v) == Answer(c, "gender", v)
NumChildren(c, v) == Answer(c, "numChildren", v)
ChildBirthYear(c, k, v) == Answer(c, ChildBirthYearName(k), v)
Spouse1Workplaces(c, v) == Answer(c, "spouse1_workplaces", v)
Spouse2Workplaces(c, v) == Answer(c, "spouse2_workplaces", v)
CustomerMessage(c, v) == Answer(c, "customerMessage", v)
AnnualReport(c, v) == Answer(c, "annualReport", v)
ReceiptAmount(c, v) == Answer(c, "receiptAmount", v)
ClientPhone(c, v) == Answer(c, "clientPhone", v)
ClientId(c, v) == Answer(c, "clientIdNumber", v)
SaveContactChoice(c, v) == Answer(c, "saveContactChoice", v)
ReceiptDescription(c, v) == Answer(c, "receiptDescription", v)

\* the menus no handler is registered for
UnroutedMenus ==
    {"systemError", "invalidAmount", "receiptSuccess", "receiptFailed",
     "detailsUpdated", "messageReceived", "reportRequested", "registrationFail",
     "invalidChoice", "benefitsMenu", "cancelReceiptId"}

UnroutedAnswer(c, menu_name, v) ==
    /\ menu_name \in UnroutedMenus
    /\ Answer(c, menu_name, v)

-----------------------------------------------------------------------------
(* Request values *)

CallA == StrV(<<"c", "1">>)
PhoneA == StrV(<<"0", "5", "1">>)
Tz1 == StrV(<<"1", "2", "3", "4", "5", "6", "7", "8">>)
Key0 == StrV(<<"0">>)
Key3 == StrV(<<"3">>)

AmountValues ==
    {StrV(<<"1", "0", "0">>), StrV(<<"0">>), StrV(<<"-", "5">>),
     StrV(<<"a", "b">>), SkipAmount}

ClientPhone10 == StrV(<<"0", "5", "0", "1", "2", "3", "4", "5", "6", "7">>)
ClientPhone3 == StrV(<<"1", "2", "3">>)
ClientTz9 == StrV(<<"3", "2", "1", "3", "2", "1", "3", "2", "1">>)

DescriptionValues == {StrV(<<"7">>), NoDescription}

ProviderOutcomes ==
    {ProviderResult(TRUE, Lit("D1"), Lit("R1")),
     ProviderResult(FALSE, NoneV, NoneV),
     ProviderRaised}

AgeValues == {StrV(<<"3", "0">>), StrV(<<"5">>), StrV(<<"x">>)}

ChildrenValues ==
    {StrV(<<"0">>), StrV(<<"1">>), StrV(<<"2">>), StrV(<<"3">>),
     StrV(<<"2", "1">>), StrV(<<"x">>)}

YearValues ==
    {StrV(<<"2", "0", "2", "0">>), StrV(<<"1", "9", "7", "6">>),
     StrV(<<"1", "9", "7", "5">>), StrV(<<"2", "0", "2", "7">>)}

WorkplaceValues == {StrV(<<"0">>), StrV(<<"1", "0">>), StrV(<<"1", "1">>)}

-----------------------------------------------------------------------------
(* Hits served concurrently by the worker threads of the server.  A thread  *)
(* serves one menu hit of the call at a time, one statement or repository   *)
(* call per step; each repository call is one transaction.                  *)

\* handle_menu_choice and handle_user_input up to the store into the session
ThreadStart(t, menu_name, value) ==
    /\ Idle
    /\ hits < MaxThreadHits
    /\ threads[t].pc \in {"idle", "done"}
    /\ Commit(SessionPut(World, CallA, menu_name, value))
    /\ threads' = [threads EXCEPT ![t] =
                       [pc |-> "select_call", name |-> menu_name, value |-> value,
                        tmp |-> NoneV, resp |-> NoneV]]
    /\ hits' = hits + 1
    /\ UNCHANGED <<inflight, last, prompt>>

\* the next statement of the hit thread t is serving: update_call_data
\* (SELECT, then UPDATE), then process_new_customer_id or
\* process_child_birth_year
ThreadStep(t) ==
    LET th == threads[t]
        cd == Session(World, CallA)
        phone == Get(cd, "PBXphone")
        Keep(w, pc, tmp) ==
            /\ Commit(w)
            /\ threads' = [threads EXCEPT ![t] = [th EXCEPT !.pc = pc, !.tmp = tmp]]
            /\ UNCHANGED <<last, prompt>>
        Done(w, resp) ==
            /\ Commit(w)
            /\ threads' = [threads EXCEPT ![t] =
                               [th EXCEPT !.pc = "done", !.tmp = NoneV, !.resp = resp]]
            /\ Served("menu", th.name, MenuArgs(CallA, th.name, th.value), resp,
                      NoneV, 0)
    IN  /\ UNCHANGED <<hits, inflight>>
        /\ \/ /\ th.pc = "select_call"
              /\ LET row == FetchOne(calls, {i \in 1..Len(calls) :
                                                calls[i].call_id = CallA})
                 IN  Keep(World, "update_call",
                          IF IsNone(row) THEN NoneV ELSE row.call_data)
           \/ /\ th.pc = "update_call"
              /\ LET existing == Update(JsonLoads(th.tmp), Kw1(th.name, th.value))
                     w == IF IsNone(th.tmp) THEN World
                          ELSE [World EXCEPT !.calls =
                                   [i \in 1..Len(@) |->
                                       IF @[i].call_id = CallA
                                       THEN [@[i] EXCEPT !.call_data = JsonDumps(existing)]
                                       ELSE @[i]]]
                 IN  Keep(w, IF th.name = "newCustomerID" THEN "reg_check"
                             ELSE "year_append", NoneV)
           \/ /\ th.pc = "reg_check"
              /\ IF ~Truthy(phone) THEN Done(World, show_main_menu)
                 ELSE LET cust == get_customer_by_phone(World, phone)
                      IN  IF IsNone(cust) THEN Keep(World, "reg_create", NoneV)
                          ELSE Keep(World, "reg_update", cust)
           \/ /\ th.pc = "reg_create"
              /\ LET r == create_customer(World, phone)
                 IN  IF r.exc THEN Done(r.w, RegistrationFail)
                     ELSE Keep(r.w, "reg_fetch", IntV(r.ret))
           \/ /\ th.pc = "reg_fetch"
              /\ Keep(World, "reg_update", get_customer_by_id(World, th.tmp.v))
           \/ /\ th.pc = "reg_update"
              /\ IF IsNone(th.tmp) THEN Keep(World, "reg_engine", NoneV)
                 ELSE Keep(update_customer_profile(
                               World, th.tmp.id, Kw1("tz_id", th.value)).w,
                           "reg_engine", NoneV)
           \/ /\ th.pc = "reg_engine"
              /\ Done(World, require_profile_or_main(World, CallA, phone))
           \/ /\ th.pc = "year_append"
              /\ LET year == ParseInt(th.value)
                     lst == GetOr(cd, "children_birth_years", ListV(<<>>))
                 IN  IF \/ ~year.ok
                        \/ year.v < CurrentYear - MaxBirthYearAge
                        \/ year.v > CurrentYear
                     THEN Done(World, show_error_and_return_to_main)
                     ELSE Keep(SessionPut(World, CallA, "children_birth_years",
                                          ListV(Append(lst.v, year.v))),
                               "year_read", NoneV)
           \/ /\ th.pc = "year_read"
              /\ Keep(World, "year_write",
                      [current_child |-> GetOr(cd, "current_child", IntV(1)).v,
                       total_children |-> GetOr(cd, "children_count", IntV(0)).v])
           \/ /\ th.pc = "year_write"
              /\ IF th.tmp.current_child < th.tmp.total_children
                 THEN Done(SessionPut(World, CallA, "current_child",
                                      IntV(th.tmp.current_child + 1)),
                           ChildBirthYearPrompt(th.tmp.current_child + 1))
                 ELSE Done(World, ask_spouse_workplaces(1))

-----------------------------------------------------------------------------
(* Initial states: a fresh process on a database that may hold customers *)

InitServer ==
    /\ calls = <<>>
    /\ receipts = <<>>
    /\ messages = <<>>
    /\ current_calls = [x \in {} |-> EmptyDict]
    /\ inflight = NoneV
    /\ prompt = [x \in {} |-> NoneV]
    /\ last = [route |-> "none", menu_name |-> "", args |-> EmptyDict,
               resp |-> NoneV, provider |-> NoneV, receipt_id |-> 0]
    /\ hits = 0
    /\ threads = [t \in 1..NumThreads |->
                     [pc |-> "idle", name |-> "", value |-> NoneV,
                      tmp |-> NoneV, resp |-> NoneV]]

StoredCustomers ==
    {[id |-> 1, phone_number |-> PhoneA, tz_id |-> tz, owner_age |-> age,
      gender |-> g, subscription_end_date |-> d] :
        tz \in {NoneV, Tz1}, age \in {NoneV, IntV(0), IntV(30)},
        g \in {NoneV, Lit("male")},
        d \in {DateText("ymd", Today), DateText("ymd", Today - 1),
               DateText("ymd", Today + 1), DateText("iso", Today),
               DateText("iso", Today - 1), DateText("bad", 0), NoneV}}

StoredDetails ==
    {[EmptyDetails(1) EXCEPT !.num_children = n] : n \in {NoneV, IntV(0), IntV(2)}}

\* a customer registered through the IVR with a complete profile
CompleteCustomer ==
    [id |-> 1, phone_number |-> PhoneA, tz_id |-> Tz1, owner_age |-> IntV(30),
     gender |-> Lit("male"), subscription_end_date |-> DateText("ymd", Today + 30)]

\* a contact the customer saved in an earlier call
StoredContact ==
    [id |-> 1, customer_id |-> 1, phone |-> ClientPhone10, name |-> NoneV,
     tz_id |-> Tz1, business_name |-> NoneV, email |-> NoneV,
     notes |-> Lit("added_via_ivr")]

-----------------------------------------------------------------------------
(* Registration and profile completion, from every stored customer state   *)

InitProfile ==
    /\ InitServer
    /\ contacts = <<>>
    /\ annual_reports = <<>>
    /\ \/ customers = <<>> /\ customer_details = <<>>
       \/ /\ customers \in {<<c>> : c \in StoredCustomers}
          /\ customer_details \in {<<>>} \cup {<<d>> : d \in StoredDetails}

NextProfile ==
    \/ InitialCall(CallA, PhoneA)
    \/ InitialCallNoPhone(CallA)
    \/ \E v \in {Choice1, Choice2} : NewCustomerChoice(CallA, v)
    \/ NewCustomerId(CallA, Tz1)
    \/ RenewSubscription(CallA, Choice1)
    \/ \E v \in AgeValues : OwnerAge(CallA, v)
    \/ \E v \in {Choice1, Choice2, Key3} : Gender(CallA, v)

SpecProfile == InitProfile /\ [][NextProfile]_vars

-----------------------------------------------------------------------------
(* The details sub-flow of a customer whose tz_id, age and gender are set *)

InitDetails ==
    /\ InitServer
    /\ annual_reports = <<>>
    /\ contacts = <<>>
    /\ customers = <<CompleteCustomer>>
    /\ customer_details \in {<<>>} \cup {<<d>> : d \in StoredDetails}

NextDetails ==
    \/ InitialCall(CallA, PhoneA)
    \/ \E v \in {Key3, Key0} : MainMenuChoice(CallA, v)
    \/ \E v \in ChildrenValues : NumChildren(CallA, v)
    \/ \E k \in 1..MaxChildren, v \in YearValues : ChildBirthYear(CallA, k, v)
    \/ \E v \in WorkplaceValues : Spouse1Workplaces(CallA, v)
    \/ \E v \in WorkplaceValues : Spouse2Workplaces(CallA, v)
    \/ \E m \in UnroutedMenus : UnroutedAnswer(CallA, m, Key0)

SpecDetails == InitDetails /\ [][NextDetails]_vars

-----------------------------------------------------------------------------
(* Two worker threads serving registration and birth-year hits of one call, *)
(* for a caller with no customer row and for a registered customer          *)

InitThreads ==
    /\ InitServer
    /\ annual_reports = <<>>
    /\ contacts = <<>>
    /\ \/ customers = <<>> /\ customer_details = <<>>
       \/ customers = <<CompleteCustomer>> /\ customer_details = <<EmptyDetails(1)>>

\* the call is logged (or, lacking its call id, refused) and the child count
\* entered before the threads race;
\* between races the caller answers the profile and details prompts
NextThreads ==
    \/ /\ \A t \in 1..NumThreads : threads[t].pc = "idle"
       /\ \/ InitialCall(CallA, PhoneA)
          \/ PbxRequest(Kw1("PBXphone", PhoneA))
          \/ NumChildren(CallA, StrV(<<"3">>))
    \/ \E t \in 1..NumThreads : ThreadStart(t, "newCustomerID", Tz1)
    \/ \E t \in 1..NumThreads :
           ThreadStart(t, ChildBirthYearName(1), StrV(<<"2", "0", "2", "0">>))
    \/ \E t \in 1..NumThreads : ThreadStep(t)
    \/ /\ \A t \in 1..NumThreads : threads[t].pc \in {"idle", "done"}
       /\ \/ OwnerAge(CallA, StrV(<<"3", "0">>))
          \/ Gender(CallA, Choice1)
          \/ NumChildren(CallA, Key0)
          \/ Spouse1Workplaces(CallA, Key0)
          \/ Spouse2Workplaces(CallA, StrV(<<"1", "0">>))

SpecThreads == InitThreads /\ [][NextThreads]_vars

-----------------------------------------------------------------------------
(* The services of the main menu (receipt, message, annual report) for a    *)
(* customer with a complete profile, new or with a contact and reports of   *)
(* earlier calls, and for a caller who declined to register; with a menu    *)
(* hit for a call id that no call hit logged                               *)

InitReceipt ==
    /\ InitServer
    /\ \/ /\ customers = <<CompleteCustomer>>
          /\ customer_details = <<[EmptyDetails(1) EXCEPT !.num_children = IntV(0)]>>
          /\ \/ contacts = <<>> /\ annual_reports = <<>>
             \/ /\ contacts = <<StoredContact>>
                /\ annual_reports =
                       <<[customer_id |-> 1, report_year |-> CurrentYear - 1,
                          status |-> Lit("sent")],
                         [customer_id |-> 1, report_year |-> CurrentYear - 2,
                          status |-> Lit("generated")],
                         [customer_id |-> 2, report_year |-> CurrentYear - 1,
                          status |-> Lit("requested")]>>
       \/ /\ customers = <<>>
          /\ customer_details = <<>>
          /\ contacts = <<>>
          /\ annual_reports = <<>>

NextReceipt ==
    \/ InitialCall(CallA, PhoneA)
    \/ NewCustomerChoice(CallA, Choice2)
    \/ \E v \in {Choice1, Key0, StrV(<<"5">>), StrV(<<"6">>)} : MainMenuChoice(CallA, v)
    \/ CustomerMessage(CallA, Lit("m1.wav"))
    \/ \E v \in {Choice1, Key0} : AnnualReport(CallA, v)
    \/ \E v \in AmountValues : ReceiptAmount(CallA, v)
    \/ \E v \in {ClientPhone10, ClientPhone3} : ClientPhone(CallA, v)
    \/ \E v \in {ClientTz9, EmptyStr} : ClientId(CallA, v)
    \/ \E v \in {Choice1, Choice2} : SaveContactChoice(CallA, v)
    \/ \E v \in DescriptionValues : ReceiptDescription(CallA, v)
    \/ \E r \in ProviderOutcomes : ProviderReturns(r)
    \/ \E m \in UnroutedMenus, v \in {Choice1, Key0} : UnroutedAnswer(CallA, m, v)
    \/ MenuRequest("mainMenu", MenuArgs(StrV(<<"c", "2">>), "mainMenu", Key0))

SpecReceipt == InitReceipt /\ [][NextReceipt]_vars

-----------------------------------------------------------------------------
(* Two calls of one customer whose hits arrive in any order: the routes     *)
(* take a menu hit by the name of its parameter, whatever descriptor the    *)
(* call was last given                                                      *)

InitCalls ==
    /\ InitServer
    /\ annual_reports = <<>>
    /\ contacts = <<>>
    /\ customers = <<CompleteCustomer>>
    /\ customer_details = <<>>

NextCalls ==
    \/ /\ hits < MaxCallHits
       /\ \E c \in {CallA, StrV(<<"c", "2">>)} :
              \/ InitialCall(c, PhoneA)
              \/ MenuRequest("numChildren",
                             MenuArgs(c, "numChildren", StrV(<<"1">>)))
              \/ MenuRequest(ChildBirthYearName(1),
                             MenuArgs(c, ChildBirthYearName(1),
                                      StrV(<<"2", "0", "2", "0">>)))
              \/ MenuRequest("spouse1_workplaces",
                             MenuArgs(c, "spouse1_workplaces", Key0))
              \/ MenuRequest("spouse2_workplaces",
                             MenuArgs(c, "spouse2_workplaces", Key0))
              \/ \E v \in {StrV(<<"1", "0", "0">>), Key0} :
                     MenuRequest("receiptAmount", MenuArgs(c, "receiptAmount", v))
              \/ MenuRequest("receiptDescription",
                             MenuArgs(c, "receiptDescription", StrV(<<"7">>)))
    \/ \E r \in ProviderOutcomes : ProviderReturns(r)

SpecCalls == InitCalls /\ [][NextCalls]_vars

-----------------------------------------------------------------------------
(* The contact repository called directly, for two customers and two phones *)

\* one call of DatabaseHandler.upsert_contact with keyword arguments kw; the
\* record of the call notes whether it repeats the arguments of the call
\* before it
UpsertContact(customer_id, phone, kw) ==
    LET r == upsert_contact(World, customer_id, phone, kw.name, kw.tz_id,
                            kw.business_name, kw.email, kw.notes)
        args == [kw EXCEPT !.customer_id = IntV(customer_id), !.phone = phone]
    IN  /\ hits < MaxUpserts
        /\ Commit(r.w)
        /\ last' = [route |-> "upsert_contact",
                    menu_name |-> IF last.route = "upsert_contact" /\ last.args = args
                                  THEN "repeated" ELSE "",
                    args |-> args,
                    resp |-> IntV(r.ret), provider |-> NoneV, receipt_id |-> 0]
        /\ hits' = hits + 1
        /\ UNCHANGED <<inflight, prompt, threads>>

InitContacts ==
    /\ InitServer
    /\ annual_reports = <<>>
    /\ contacts = <<>>
    /\ customers = <<CompleteCustomer>>
    /\ customer_details = <<EmptyDetails(1)>>

\* the optional arguments: none given, all given (with two sets of values),
\* the ones the save-contact hit gives, and a name alone
NextContacts ==
    \E customer_id \in {1, 2}, phone \in {ClientPhone10, ClientPhone3},
       opt \in {<<NoneV, NoneV, NoneV>>,
                <<Lit("a"), Tz1, Lit("added_via_ivr")>>,
                <<Lit("b"), ClientTz9, Lit("b")>>,
                <<NoneV, ClientTz9, Lit("added_via_ivr")>>,
                <<Lit("a"), NoneV, NoneV>>} :
        /\ customer_id = 2 => phone = ClientPhone10
        /\ UpsertContact(customer_id, phone,
                         [customer_id |-> NoneV, phone |-> NoneV,
                          name |-> opt[1], tz_id |-> opt[2],
                          business_name |-> opt[1], email |-> opt[1],
                          notes |-> opt[3]])

SpecContacts == InitContacts /\ [][NextContacts]_vars

-----------------------------------------------------------------------------
(* What the claims speak of, read off the tables and the last hit *)

\* the rows of table customers for the caller's phone
CallerRows == {i \in 1..Len(customers) : customers[i].phone_number = PhoneA}

Caller == customers[CHOOSE i \in CallerRows : TRUE]

\* the caller has a details row whose num_children is set
ChildrenRecorded ==
    \E j \in 1..Len(customer_details) :
        /\ customer_details[j].customer_id = Caller.id
        /\ customer_details[j].num_children # NoneV

\* the name of the descriptor that asks for the first unmet item
FirstUnmet ==
    IF CallerRows = {} THEN "newCustomer"
    ELSE IF Caller.tz_id = NoneV THEN "newCustomerID"
    ELSE IF Caller.owner_age = NoneV THEN "ownerAge"
    ELSE IF Caller.gender = NoneV THEN "gender"
    ELSE IF ~ChildrenRecorded THEN "numChildren"
    ELSE "mainMenu"

\* the last hit ended in the profile engine
EngineAnswered ==
    \/ /\ last.route = "menu"
       /\ last.menu_name \in {"newCustomerID", "ownerAge", "gender"}
    \/ /\ last.route = "pbx"
       /\ last.resp.http = 200
       /\ last.resp.name # "renewSubscription"

\* the value the last hit carried for its menu
LastValue == last.args[last.menu_name]

\* the number a string of decimal digits writes, -1 for any other string
Decimal(x) == IF AllDigits(x.v) THEN DigitsVal(x.v) ELSE 0 - 1

-----------------------------------------------------------------------------
\* C1: in every customer state the profile engine asks for exactly the first
\* unmet item in the order no customer (newCustomer), tz_id (newCustomerID,
\* 8 to 10 digits), owner_age (ownerAge, 1 to 2 digits), gender (gender, keys
\* 1 and 2), num_children (numChildren); a hit that ends in the engine
\* returns that descriptor.
C1_FirstUnmetRequested ==
    LET d == require_profile_or_main(World, CallA, PhoneA)
    IN  /\ FirstUnmet # "mainMenu" => d.name = FirstUnmet
        /\ d.name = "newCustomer" => d.enabledKeys = {"1", "2"}
        /\ d.name = "newCustomerID" => d.min = 8 /\ d.max = 10
        /\ d.name = "ownerAge" => d.min = 1 /\ d.max = 2
        /\ d.name = "gender" => d.enabledKeys = {"1", "2"}
        /\ EngineAnswered /\ FirstUnmet # "mainMenu" => last.resp = d

\* several items are missing at once and the earliest is the one requested
C1_Witness ==
    /\ last.menu_name = "newCustomerID"
    /\ last.resp.name = "ownerAge"
    /\ CallerRows # {}
    /\ Caller.owner_age = NoneV /\ Caller.gender = NoneV /\ ~ChildrenRecorded

\* the profile is complete as section 4.4 of the spec defines it
ProfileComplete ==
    /\ Caller.tz_id # NoneV
    /\ Caller.owner_age # NoneV
    /\ Caller.gender # NoneV
    /\ ChildrenRecorded

\* C2: for an existing customer the engine returns the main menu if and only
\* if the profile is complete (owner_age 0 and num_children 0 count as set),
\* and is_profile_complete says the same.
C2_MainMenuIffComplete ==
    CallerRows # {} =>
        /\ is_profile_complete(World, Caller) <=> ProfileComplete
        /\ (require_profile_or_main(World, CallA, PhoneA).name = "mainMenu")
               <=> ProfileComplete
        /\ EngineAnswered => (last.resp.name = "mainMenu" <=> ProfileComplete)

\* the engine returned the main menu to a customer of age 0 with 0 children
C2_Witness ==
    /\ CallerRows # {}
    /\ Caller.owner_age = IntV(0)
    /\ \E j \in 1..Len(customer_details) :
           customer_details[j].num_children = IntV(0)
    /\ last.route = "pbx"
    /\ last.resp = show_main_menu

\* the cursor of the birth-year prompt the PBX holds for the call, 0 if none
PromptedChild(p) ==
    IF CallA \in DOMAIN p /\ \E k \in 1..MaxChildren : p[CallA].name = ChildBirthYearName(k)
    THEN CHOOSE k \in 1..MaxChildren : p[CallA].name = ChildBirthYearName(k)
    ELSE 0

\* a hit was served in this step
Hit == hits' # hits

\* the hit of this step carried an accepted child count
CountAccepted ==
    /\ Hit /\ last'.menu_name = "numChildren"
    /\ Decimal(last'.args["numChildren"]) \in 0..MaxChildren

\* the hit of this step answered a birth-year prompt with an accepted year
YearAccepted ==
    /\ Hit /\ PromptedChild(prompt) # 0
    /\ last'.menu_name = ChildBirthYearName(PromptedChild(prompt))
    /\ Decimal(last'.args[last'.menu_name])
           \in (CurrentYear - MaxBirthYearAge)..CurrentYear

\* the child count accepted in the call
AcceptedCount(cc) == cc[CallA]["children_count"].v

C3_Step ==
    /\ CountAccepted =>
           /\ AcceptedCount(current_calls') = Decimal(last'.args["numChildren"])
           /\ last'.resp.name = IF AcceptedCount(current_calls') = 0
                                THEN "spouse1_workplaces"
                                ELSE ChildBirthYearName(1)
    /\ YearAccepted =>
           /\ PromptedChild(prompt) <= AcceptedCount(current_calls)
           /\ last'.resp.name =
                  IF PromptedChild(prompt) < AcceptedCount(current_calls)
                  THEN ChildBirthYearName(PromptedChild(prompt) + 1)
                  ELSE "spouse1_workplaces"
    /\ Hit /\ PromptedChild(prompt') # 0 => CountAccepted \/ YearAccepted
    /\ Hit /\ last'.resp.name = "spouse1_workplaces" => CountAccepted \/ YearAccepted

\* C3: after a child count n is accepted the birth-year prompts are
\* child_birth_year_1 .. child_birth_year_n, each emitted by the accepted
\* answer to the one before it, none for n = 0, and the spouse-1 prompt is
\* emitted only by the accepted count 0 or the accepted answer to prompt n.
C3_BirthYearPrompts == [][C3_Step]_vars

\* the second of two birth years was accepted and the spouse-1 prompt follows
C3_Witness ==
    /\ last.menu_name = ChildBirthYearName(2)
    /\ last.resp = ask_spouse_workplaces(1)
    /\ current_calls[CallA]["children_count"] = IntV(2)

-----------------------------------------------------------------------------
(* The receipt flow *)

Pending == Lit("pending")
Completed == Lit("completed")
Failed == Lit("failed")

\* the provider is invoked in this step
ProviderInvoked == Idle /\ ~Idle'

\* the provider's result dict reaches the handler in this step
ProviderResponded == ~Idle /\ Idle' /\ ~last'.provider.raised

C4_Step ==
    /\ ProviderInvoked =>
           /\ Len(receipts') = Len(receipts) + 1
           /\ inflight'.receipt_id = Len(receipts')
           /\ receipts'[Len(receipts')].status = Pending
    /\ Len(receipts') # Len(receipts) => ProviderInvoked
    /\ ProviderResponded =>
           LET row == receipts'[inflight.receipt_id]
               res == last'.provider
           IN  /\ receipts[inflight.receipt_id].status = Pending
               /\ row.status = IF res.status THEN Completed ELSE Failed
               /\ res.status => /\ row.icount_doc_id = res.doc_id
                                /\ row.icount_doc_num = res.doc_num
    /\ \A i \in 1..Len(receipts) :
           receipts[i].status \in {Completed, Failed} =>
               receipts'[i].status = receipts[i].status

\* C4: the Receipt row exists in status pending when the provider is invoked;
\* when the provider's result arrives the same row becomes completed if the
\* result's status is true (doc id and number stored) and failed otherwise;
\* a completed or failed row never changes status again.
C4_ReceiptLifecycle == [][C4_Step]_vars

\* the provider answered with success: the row of the attempt is completed
\* and carries the document number the hit reports
C4_Witness ==
    /\ last.provider # NoneV
    /\ last.provider.status
    /\ receipts[last.receipt_id].status = Completed
    /\ receipts[last.receipt_id].icount_doc_num = Lit("R1")
    /\ last.resp = ReceiptSuccessMenu(Lit("R1"))

\* C5: when the provider returns failure or raises, the row of that attempt
\* is failed with the provider's raw response stored, and the hit returns the
\* retry-or-main menu (receiptFailed).
C5_FailureRecorded ==
    (last.provider # NoneV /\ (last.provider.raised \/ ~last.provider.status)) =>
        /\ receipts[last.receipt_id].status = Failed
        /\ receipts[last.receipt_id].icount_response # NoneV
        /\ last.resp = ReceiptFailedMenu

\* the last hit answered the menu menu_name
Answered(menu_name) == last.route = "menu" /\ last.menu_name = menu_name

\* C6: at the amount step a positive integer returns the client-phone prompt,
\* the skip value the main menu, every other value the invalidAmount menu
\* with keys 1 and 0.
C6_AmountEntry ==
    Answered("receiptAmount") =>
        IF LastValue = SkipAmount THEN last.resp = show_main_menu
        ELSE IF Decimal(LastValue) > 0
             THEN /\ last.resp.name = "clientPhone"
                  /\ last.resp.min = 9 /\ last.resp.max = 11
        ELSE /\ last.resp.name = "invalidAmount"
             /\ last.resp.enabledKeys = {"1", "0"}

\* a negative amount was answered with the invalidAmount menu
C6_Witness ==
    /\ Answered("receiptAmount")
    /\ LastValue = StrV(<<"-", "5">>)
    /\ last.resp = InvalidAmountMenu

\* C7: answering the invalidAmount menu with 1 returns the receipt-amount
\* prompt, answering it with 0 the main menu.
C7_InvalidAmountRetry ==
    Answered("invalidAmount") =>
        /\ LastValue = Choice1 => last.resp = handle_create_receipt
        /\ LastValue = Key0 => last.resp = show_main_menu

\* C8: answering the receiptFailed menu with 1 returns the receipt-amount
\* prompt, answering it with 0 the main menu, and the failed row is still
\* there.
C8_ReceiptFailedRetry ==
    Answered("receiptFailed") =>
        /\ LastValue = Choice1 => last.resp = handle_create_receipt
        /\ LastValue = Key0 => last.resp = show_main_menu
        /\ \E i \in 1..Len(receipts) : receipts[i].status = Failed

\* C9: a client-id hit returns the save-contact menu and records the id, or
\* no id when the hit carries the skip value ''.
C9_ClientIdOptional ==
    Answered("clientIdNumber") =>
        /\ last.resp = SaveContactMenu
        /\ Get(current_calls[CallA], "client_tz") =
               IF LastValue = EmptyStr THEN NoneV ELSE LastValue

\* a string of 9 to 11 decimal digits
PhoneDigits(x) == AllDigits(x.v) /\ Len(x.v) \in 9..11

\* C10: a client phone that is not 9 to 11 digits does not return the
\* client-id prompt and is not recorded as the client phone.
C10_ClientPhoneValidated ==
    (Answered("clientPhone") /\ ~PhoneDigits(LastValue)) =>
        /\ last.resp.name # "clientIdNumber"
        /\ Get(current_calls[CallA], "client_phone") # LastValue

-----------------------------------------------------------------------------
(* Contacts *)

\* the rows of a contacts table owned by the caller with the given phone
ContactsOf(table, phone) ==
    {i \in 1..Len(table) :
        table[i].customer_id = Caller.id /\ table[i].phone = phone}

\* the hit served in this step answered the save-contact menu
SaveContactServed ==
    Hit /\ Idle' /\ last'.route = "menu" /\ last'.menu_name = "saveContactChoice"

C11_Step ==
    SaveContactServed /\ CallerRows # {} =>
        LET choice == last'.args["saveContactChoice"]
            phone == Get(current_calls'[CallA], "client_phone")
            tz == Get(current_calls'[CallA], "client_tz")
            old == ContactsOf(contacts, phone)
            new == ContactsOf(contacts', phone)
        IN  /\ last'.resp = ReceiptDescriptionPrompt
            /\ choice = Choice2 => contacts' = contacts
            /\ choice = Choice1 =>
                   /\ Cardinality(new) = 1
                   /\ \A i \in new :
                          /\ contacts'[i].notes = Lit("added_via_ivr")
                          /\ contacts'[i].tz_id =
                                 IF tz # NoneV THEN tz
                                 ELSE IF old = {} THEN NoneV
                                 ELSE contacts[i].tz_id
                   /\ \A i \in 1..Len(contacts) : i \notin new => contacts'[i] = contacts[i]
                   /\ Len(contacts') = Len(contacts) + (IF old = {} THEN 1 ELSE 0)

\* C11: at the save-contact choice, "1" upserts one contact of the issuing
\* customer keyed on the session's client phone (client id attached if known,
\* notes added_via_ivr), "2" leaves the contacts unchanged, and both return
\* the receiptDescription prompt.
C11_SaveContactChoice == [][C11_Step]_vars

\* choice 1 was served for a phone not yet among the contacts: one row was added
C11_Witness ==
    /\ Answered("saveContactChoice")
    /\ LastValue = Choice1
    /\ last.resp = ReceiptDescriptionPrompt
    /\ \E i \in 1..Len(contacts) :
           /\ contacts[i].phone = ClientPhone3
           /\ contacts[i].tz_id = ClientTz9
           /\ contacts[i].notes = Lit("added_via_ivr")

-----------------------------------------------------------------------------
(* The Call row and its JSON bag *)

\* the positions of the rows of a calls table for the call
CallRows(table) == {i \in 1..Len(table) : table[i].call_id = CallA}

\* the JSON bag of the call's row
Bag(table) == JsonLoads(table[CHOOSE i \in CallRows(table) : TRUE].call_data)

\* the keys the hit served in this step wrote into the bag
WrittenKeys ==
    IF last'.route = "pbx" THEN PBXKeys \cup DOMAIN last'.args
    ELSE {last'.menu_name}

C12_Step ==
    CallRows(calls) # {} =>
        /\ CallRows(calls') # {}
        /\ \A k \in DOMAIN Bag(calls) :
               /\ k \in DOMAIN Bag(calls')
               /\ k \notin WrittenKeys => Bag(calls')[k] = Bag(calls)[k]

\* C12: for a call id the JSON bag of the Call row is merged and never
\* replaced: every key an earlier write put there is still there, with its
\* latest value, after any later write, a repeated log of the call included.
C12_BagNeverReplaced == [][C12_Step]_vars

\* C13: update_call_data on an existing Call row is a shallow merge: two maps
\* with disjoint keys give the union of both in either order, a shared key
\* keeps the value of the later merge, keys not named keep their values.
C13_ShallowMerge ==
    LET A1 == Kw1("a", IntV(1))
        A2 == Kw1("a", IntV(2))
        B2 == Kw1("b", IntV(2))
        M9 == Kw1("mainMenu", IntV(9))
        Then(x, y) ==
            Bag(update_call_data(update_call_data(World, CallA, x).w, CallA, y).w.calls)
    IN  CallRows(calls) # {} =>
            \A x \in {A1, A2, B2, M9}, y \in {A1, A2, B2, M9} :
                /\ DOMAIN Then(x, y) = DOMAIN Bag(calls) \cup DOMAIN x \cup DOMAIN y
                /\ \A k \in DOMAIN y : Then(x, y)[k] = y[k]
                /\ \A k \in DOMAIN x \ DOMAIN y : Then(x, y)[k] = x[k]
                /\ \A k \in DOMAIN Bag(calls) \ (DOMAIN x \cup DOMAIN y) :
                       Then(x, y)[k] = Bag(calls)[k]
                /\ DOMAIN x \cap DOMAIN y = {} => Then(x, y) = Then(y, x)
                /\ update_call_data(World, CallA, x).ret

\* two merges of the program left both keys in the bag of the logged call
C13_Witness ==
    /\ CallRows(calls) # {}
    /\ {"PBXphone", "mainMenu", "receiptAmount"} \subseteq DOMAIN Bag(calls)
    /\ Bag(calls)["receiptAmount"] = StrV(<<"1", "0", "0">>)

-----------------------------------------------------------------------------
(* Concurrent hits on one call id *)

\* thread t leaves the program point pc in this step
Leaves(t, pc) == threads[t].pc = pc /\ threads'[t].pc # pc

C14_Step ==
    \A t \in 1..NumThreads :
        Leaves(t, "update_call") /\ CallRows(calls) # {} =>
            \A k \in DOMAIN Bag(calls) :
                /\ k \in DOMAIN Bag(calls')
                /\ k # threads[t].name => Bag(calls')[k] = Bag(calls)[k]

\* C14: the read-modify-write of update_call_data is atomic with respect to
\* concurrent hits on the call id: the UPDATE of a hit keeps every key the
\* bag holds when it is written, so that after two hits the bag holds the
\* keys of both.
C14_NoLostBagUpdate == [][C14_Step]_vars

C15_Step ==
    \A t \in 1..NumThreads :
        Leaves(t, "year_write") =>
            LET cd == Session(World, CallA)
                cursor == GetOr(cd, "current_child", IntV(1)).v
                total == GetOr(cd, "children_count", IntV(0)).v
            IN  cursor < total =>
                    /\ current_calls'[CallA]["current_child"] = IntV(cursor + 1)
                    /\ threads'[t].resp = ChildBirthYearPrompt(cursor + 1)

\* C15: the session read-modify-write of a birth-year hit is atomic with
\* respect to concurrent hits on the call id: every accepted year advances
\* the cursor by one from its value at that moment and is answered with the
\* prompt of the new cursor, so no increment is lost and no index is issued
\* twice.
C15_NoLostCursorUpdate == [][C15_Step]_vars

\* no two rows of a customers table have the same phone number
OnePerPhone(table) ==
    \A i \in 1..Len(table), j \in 1..Len(table) :
        table[i].phone_number = table[j].phone_number => i = j

C16_Step ==
    /\ OnePerPhone(customers')
    /\ \A t \in 1..NumThreads :
           Leaves(t, "reg_create") /\ OnePerPhone(customers) /\ customers # <<>> =>
               /\ customers' = customers
               /\ customer_details' = customer_details
               /\ threads'[t].pc = "done"
               /\ threads'[t].resp = RegistrationFail

\* C16: at most one Customer row per phone number in every reachable state,
\* also when two newCustomerID hits for the phone interleave between the
\* existence check and the insert: the hit that loses creates no customer
\* and no details row and returns the registrationFail descriptor.
C16_OneCustomerPerPhone == [][C16_Step]_vars

\* both threads passed the existence check, one created the customer, the
\* other was answered registrationFail
C16_Witness ==
    /\ Len(customers) = 1
    /\ Len(customer_details) = 1
    /\ \E t \in 1..NumThreads :
           /\ threads[t].pc = "done"
           /\ threads[t].name = "newCustomerID"
           /\ threads[t].resp = RegistrationFail

-----------------------------------------------------------------------------
(* Customers and their details rows *)

\* the rows of a customer_details table that belong to customer id
DetailsOf(table, id) == {j \in 1..Len(table) : table[j].customer_id = id}

\* every customer has exactly one details row and no details row is an orphan
OneDetailsEach(cs, ds) ==
    /\ \A i \in 1..Len(cs) : Cardinality(DetailsOf(ds, cs[i].id)) = 1
    /\ Len(ds) = Len(cs)

C17_Step ==
    /\ OneDetailsEach(customers', customer_details')
    /\ \A t \in 1..NumThreads :
           Leaves(t, "reg_create") =>
               \/ /\ Len(customers') = Len(customers) + 1
                  /\ customer_details' =
                         Append(customer_details,
                                EmptyDetails(customers'[Len(customers')].id))
               \/ /\ customers # <<>>
                  /\ customers' = customers
                  /\ customer_details' = customer_details
    /\ last'.menu_name = "spouse2_workplaces" /\ last' # last =>
           /\ Len(customer_details') = Len(customer_details)
           /\ \A j \in 1..Len(customer_details) :
                  customer_details'[j].customer_id = customer_details[j].customer_id

\* C17: create_customer is atomic with respect to the details row: after
\* every step each Customer has exactly one CustomerDetails row; a create
\* adds the customer together with its empty details row or, on a duplicate
\* phone, adds neither; update_customer_details never adds a second row.
C17_CustomerHasOneDetailsRow == [][C17_Step]_vars

\* a create lost the race on the phone, the winner's customer finished the
\* details wizard and its one details row was updated
C17_Witness ==
    /\ Len(customers) = 1
    /\ Len(customer_details) = 1
    /\ customer_details[1].spouse2_workplaces = IntV(10)
    /\ \E t \in 1..NumThreads : threads[t].resp = RegistrationFail

-----------------------------------------------------------------------------
(* The contact repository *)

\* the step is a call of upsert_contact
Upserted == last'.route = "upsert_contact" /\ hits' = hits + 1

ContactFields == {"name", "tz_id", "business_name", "email", "notes"}

\* the rows of a contacts table keyed by (customer_id, phone) of the arguments
Matching(table, args) ==
    {i \in 1..Len(table) :
        /\ IntV(table[i].customer_id) = args.customer_id
        /\ table[i].phone = args.phone}

C18_Step ==
    /\ Upserted
    /\ last'.menu_name = "repeated"
    /\ \A k \in DOMAIN last.args : last.args[k] # NoneV
    => /\ contacts' = contacts
       /\ last'.resp = last.resp
       /\ Cardinality(Matching(contacts', last'.args)) = 1

C19_Step ==
    Upserted =>
        LET args == last'.args
            old == Matching(contacts, args)
        IN  /\ \A i \in 1..Len(contacts') : \A j \in 1..Len(contacts') :
                   /\ contacts'[i].customer_id = contacts'[j].customer_id
                   /\ contacts'[i].phone = contacts'[j].phone
                   => i = j
            /\ old # {} =>
                   /\ Len(contacts') = Len(contacts)
                   /\ \A i \in 1..Len(contacts) :
                          IF i \in old
                          THEN /\ \A f \in ContactFields :
                                      contacts'[i][f] =
                                          IF args[f] # NoneV THEN args[f]
                                          ELSE contacts[i][f]
                               /\ contacts'[i].id = contacts[i].id
                               /\ contacts'[i].customer_id = contacts[i].customer_id
                               /\ contacts'[i].phone = contacts[i].phone
                               /\ last'.resp = IntV(contacts[i].id)
                          ELSE contacts'[i] = contacts[i]
            /\ old = {} =>
                   /\ Len(contacts') = Len(contacts) + 1
                   /\ SubSeq(contacts', 1, Len(contacts)) = contacts
                   /\ LET row == contacts'[Len(contacts')]
                      IN  /\ IntV(row.customer_id) = args.customer_id
                          /\ row.phone = args.phone
                          /\ \A f \in ContactFields : row[f] = args[f]
                          /\ last'.resp = IntV(row.id)
                          /\ \A i \in 1..Len(contacts) : contacts[i].id # row.id

-----------------------------------------------------------------------------
(* Registration end to end *)

\* the hit served in this step came by route for menu_name
ServedNow(route, menu_name) ==
    Hit /\ last'.route = route /\ last'.menu_name = menu_name

C20_Step ==
    /\ ServedNow("pbx", "") /\ Get(last'.args, "PBXphone") = PhoneA
          /\ CallerRows = {}
       => /\ last'.resp = handle_new_customer
          /\ customers' = customers
    /\ ServedNow("menu", "newCustomer") /\ last'.args["newCustomer"] = Choice1
          /\ CallerRows = {}
       => /\ last'.resp = NewCustomerIDPrompt
          /\ customers' = customers
    /\ ServedNow("menu", "newCustomerID") /\ CallerRows = {}
       => /\ Len(customers') = Len(customers) + 1
          /\ SubSeq(customers', 1, Len(customers)) = customers
          /\ LET row == customers'[Len(customers')]
             IN  /\ row.phone_number = PhoneA
                 /\ row.tz_id = last'.args["newCustomerID"]
                 /\ IsNone(row.owner_age)
                 /\ IsNone(row.gender)
          /\ last'.resp = OwnerAgePrompt

\* C20: for a phone with no customer the initial call hit returns the
\* newCustomer offer, the answer "1" returns the newCustomerID prompt, and
\* the hit that enters the id creates exactly one customer for the caller's
\* phone carrying that id and returns the ownerAge prompt.
C20_RegistrationEndToEnd == [][C20_Step]_vars

\* the third hit of the call entered the id: the customer exists with the id
\* and no age, and the caller is asked for the age
C20_Witness ==
    /\ hits = 3
    /\ last.route = "menu"
    /\ last.menu_name = "newCustomerID"
    /\ last.resp = OwnerAgePrompt
    /\ Len(customers) = 1
    /\ customers[1].phone_number = PhoneA
    /\ customers[1].tz_id = Tz1
    /\ customers[1] = [NewCustomerRow(1, PhoneA) EXCEPT !.tz_id = Tz1]

-----------------------------------------------------------------------------
(* The receipt flow end to end *)

\* the menu hit served in this step answered menu_name with value
AnswersNow(menu_name, value) ==
    /\ ServedNow("menu", menu_name)
    /\ Idle /\ Idle'
    /\ last'.args[menu_name] = value

C21_Step ==
    /\ \A v \in AmountValues :
           AnswersNow("receiptAmount", v) /\ Decimal(v) > 0 /\ v # SkipAmount =>
               last'.resp.name = "clientPhone"
    /\ AnswersNow("clientPhone", ClientPhone10) => last'.resp.name = "clientIdNumber"
    /\ AnswersNow("clientIdNumber", EmptyStr) =>
           /\ last'.resp = SaveContactMenu
           /\ IsNone(Get(current_calls'[CallA], "client_tz"))
    /\ AnswersNow("saveContactChoice", Choice2) =>
           last'.resp = ReceiptDescriptionPrompt
    /\ ProviderInvoked /\ inflight'.args["receiptDescription"] = NoDescription =>
           /\ Len(receipts') = Len(receipts) + 1
           /\ receipts'[Len(receipts')].description = DefaultDescription
    /\ ProviderResponded /\ last'.provider.status =>
           /\ last'.resp = ReceiptSuccessMenu(last'.provider.doc_num)
           /\ receipts' # receipts
           /\ Len(receipts') = Len(receipts)
           /\ receipts'[inflight.receipt_id].status = Completed
           /\ ContactsOf(contacts, Get(current_calls[CallA], "client_phone")) = {} =>
                  IsNone(receipts'[inflight.receipt_id].client_contact_id)

\* C21: for an issuer with a customer record a positive amount returns the
\* client-phone prompt, the phone the client-id prompt, the client-id skip
\* (the empty value) the save-contact menu with no id recorded, the choice 2
\* the description prompt, and the description skip followed by the
\* provider's success with document number D the success menu naming D; the
\* one receipt row added is completed, holds the default description and,
\* the client not being a saved contact, no contact link.
C21_ReceiptEndToEnd == [][C21_Step]_vars

-----------------------------------------------------------------------------
(* The subscription *)

\* the stored end date of the caller is a date in one of the two accepted
\* formats and is today or later
EndsTodayOrLater(c) ==
    /\ c.subscription_end_date # NoneV
    /\ c.subscription_end_date.fmt \in {"ymd", "iso"}
    /\ c.subscription_end_date.day >= Today

C22_Step ==
    ServedNow("pbx", "") /\ Get(last'.args, "PBXphone") = PhoneA /\ CallerRows # {}
    => /\ EndsTodayOrLater(Caller) /\ ProfileComplete =>
              /\ last'.resp.name = "mainMenu"
              /\ last'.resp.type = "simpleMenu"
              /\ last'.resp.enabledKeys = {"1", "2", "3", "4", "5", "6", "0"}
       /\ ~EndsTodayOrLater(Caller) =>
              /\ last'.resp = handle_subscription_renewal
              /\ last'.resp.name # "mainMenu"

\* C22: on the initial call hit a caller whose customer has a complete
\* profile and an active subscription gets the main menu with the keys 1 to
\* 6 and 0 enabled; a caller whose customer's subscription is not active
\* gets the renewSubscription menu, not the main menu.
C22_InitialCallMenu == [][C22_Step]_vars

\* a customer with a complete profile whose subscription ended yesterday
\* called and got the renewal menu
C22_Witness ==
    /\ CallerRows # {}
    /\ ProfileComplete
    /\ Caller.subscription_end_date = DateText("ymd", Today - 1)
    /\ last.route = "pbx"
    /\ last.resp = handle_subscription_renewal

\* C23: is_subscription_active is false when the end date is missing or
\* not parsable, false when it is before today, and true when it is today
\* or later; the pbx hit of the customer decides by it.
C23_SubscriptionActive ==
    CallerRows # {} =>
        LET d == Caller.subscription_end_date
        IN  /\ d = NoneV => ~is_subscription_active(Caller)
            /\ d # NoneV /\ d.fmt = "bad" => ~is_subscription_active(Caller)
            /\ d # NoneV /\ d.fmt \in {"ymd", "iso"} =>
                   (is_subscription_active(Caller) <=> d.day >= Today)
            /\ last.route = "pbx" /\ Get(last.args, "PBXphone") = PhoneA =>
                   (last.resp.name = "renewSubscription"
                        <=> ~(d # NoneV /\ d.fmt \in {"ymd", "iso"} /\ d.day >= Today))

\* the customer whose subscription ends today called and was not sent to
\* the renewal menu
C23_Witness ==
    /\ CallerRows # {}
    /\ Caller.subscription_end_date = DateText("iso", Today)
    /\ is_subscription_active(Caller)
    /\ last.route = "pbx"
    /\ last.resp.name # "renewSubscription"
    /\ last.resp.http = 200

-----------------------------------------------------------------------------
(* Steps that find the session or the customer missing *)

\* the session of the call holds no caller phone
NoSessionPhone == ~Truthy(Get(Session(World, CallA), "PBXphone"))

\* the session holds no caller phone, or no customer has that phone
NoSessionCustomer ==
    \/ NoSessionPhone
    \/ IsNone(get_customer_by_phone(World, Get(Session(World, CallA), "PBXphone")))

\* the answer is the main menu or the error-to-main menu and no row of a
\* customer, details, receipt, contact, message or report was added or changed
AbortsUnchanged ==
    /\ last'.resp \in {show_main_menu, show_error_and_return_to_main}
    /\ UNCHANGED <<customers, customer_details, receipts, contacts, messages,
                   annual_reports>>

C24_Step ==
    /\ ServedNow("menu", "newCustomerID") /\ NoSessionPhone => AbortsUnchanged
    /\ \A m \in {"spouse2_workplaces", "receiptDescription", "customerMessage",
                  "annualReport"} :
           ServedNow("menu", m) /\ Idle /\ Idle' /\ NoSessionCustomer => AbortsUnchanged

\* C24: a national-id hit whose session holds no caller phone, and a
\* spouse-2 workplaces, receipt description, message or annual-report hit
\* whose session holds no caller phone or whose phone has no customer, is
\* answered with the main menu or the error-to-main menu, not with a
\* confirmation, and adds or changes no row.
C24_StateErrorsAbort == [][C24_Step]_vars

-----------------------------------------------------------------------------
(* The Call Session *)

C25_Step ==
    /\ \A c \in DOMAIN current_calls :
           /\ c \in DOMAIN current_calls'
           /\ DOMAIN current_calls[c] \subseteq DOMAIN current_calls'[c]
    /\ ServedNow("pbx", "") =>
           \A c \in DOMAIN current_calls :
               \A k \in DOMAIN current_calls[c] :
                   k \notin core_keys => current_calls'[c][k] = current_calls[c][k]

\* C25: no step deletes a field of a Call Session: every call id that has a
\* session keeps it and the session's key set only grows; a call hit on a
\* call id that already has a session keeps every field stored in it (the
\* caller's core parameters may be overwritten).
C25_SessionOnlyGrows == [][C25_Step]_vars

\* the call was logged again after the child count and a birth year were
\* collected, and the session still holds them
C25_Witness ==
    /\ last.route = "pbx"
    /\ CallA \in DOMAIN current_calls
    /\ {"PBXphone", "children_count", "current_child", "children_birth_years"}
           \subseteq DOMAIN current_calls[CallA]
    /\ current_calls[CallA]["current_child"] = IntV(2)

-----------------------------------------------------------------------------
(* Call hits that lack a required parameter *)

\* C26: a call hit that lacks the caller phone or the call identifier is
\* answered with a client error (HTTP 400), not with a server error and not
\* with a menu descriptor.
C26_MissingParameterClientError ==
    last.route = "pbx"
        /\ (~Truthy(Get(last.args, "PBXphone")) \/ ~Truthy(Get(last.args, "PBXcallId")))
    => last.resp.http = 400

-----------------------------------------------------------------------------
(* update_call_data for a call id with no Call row *)

\* a call id no call hit carried
UnloggedCall == StrV(<<"c", "2">>)

C27_Step ==
    /\ \A i \in 1..Len(calls) : calls[i].call_id # UnloggedCall
    /\ LET r == update_call_data(World, UnloggedCall, Kw1("mainMenu", Key0))
       IN  ~r.ret /\ ~r.exc /\ r.w = World
    /\ Hit /\ Get(last'.args, "PBXcallId") = UnloggedCall /\ last' # last =>
           calls' = calls

\* C27: update_call_data on a call id that has no Call row returns false,
\* creates no Call row and changes no row, also when a menu hit of such a
\* call id calls it.
C27_UnknownCallNoOp == [][C27_Step]_vars

\* a menu hit arrived for a call id with no Call row while the row of the
\* logged call stayed as it was
C27_Witness ==
    /\ Get(last.args, "PBXcallId") = UnloggedCall
    /\ last.resp = show_main_menu
    /\ CallRows(calls) # {}
    /\ "mainMenu" \in DOMAIN Bag(calls)
    /\ \A i \in 1..Len(calls) : calls[i].call_id # UnloggedCall

-----------------------------------------------------------------------------
(* Annual-report requests *)

\* the rows of an annual_reports table for the customer and the year
ReportsOf(table, customer_id, year) ==
    {i \in 1..Len(table) :
        table[i].customer_id = customer_id /\ table[i].report_year = year}

\* the rows of an annual_reports table for other customers or years, in order
OtherReports(table, customer_id, year) ==
    LET Other(r) == ~(r.customer_id = customer_id /\ r.report_year = year)
    IN  SelectSeq(table, Other)

C28_Step ==
    /\ ServedNow("menu", "annualReport") /\ last'.args["annualReport"] = Choice1
          /\ CallerRows # {}
       => /\ Cardinality(ReportsOf(annual_reports', Caller.id, CurrentYear - 1)) = 1
          /\ \A i \in ReportsOf(annual_reports', Caller.id, CurrentYear - 1) :
                 annual_reports'[i].status = Lit("requested")
          /\ OtherReports(annual_reports', Caller.id, CurrentYear - 1)
                 = OtherReports(annual_reports, Caller.id, CurrentYear - 1)
          /\ last'.resp = ReportRequestedMenu
    /\ CallerRows # {} =>
           LET once == request_annual_report(World, Caller.id).w
               twice == request_annual_report(once, Caller.id).w
           IN  twice = once

\* C28: request_annual_report is idempotent per (customer, year): after a
\* request, the first or a repeated one, exactly one row exists for the
\* customer and the year, in status requested, and the rows of other
\* customers and years are unchanged.
C28_ReportRequestIdempotent == [][C28_Step]_vars

\* the customer whose report of the year was already sent asked again, in
\* the sixth hit of the call: the row is requested, the two other rows stay
C28_Witness ==
    /\ hits = 6
    /\ Answered("annualReport")
    /\ last.resp = ReportRequestedMenu
    /\ messages = <<>>
    /\ Len(annual_reports) = 3
    /\ \E i \in 1..3 : annual_reports[i] =
           [customer_id |-> 1, report_year |-> CurrentYear - 1,
            status |-> Lit("requested")]
    /\ \E i \in 1..3 : annual_reports[i].status = Lit("generated")

-----------------------------------------------------------------------------
(* What the details sub-flow persists *)

\* the spouse-2 hit served in this step persisted the details of the caller
DetailsPersisted ==
    /\ ServedNow("menu", "spouse2_workplaces")
    /\ last'.resp = DetailsUpdatedMenu
    /\ CallerRows # {}

\* the details row of the caller in a customer_details table
CallerDetails(table) ==
    table[CHOOSE j \in 1..Len(table) : table[j].customer_id = Caller.id]

C29_Step ==
    DetailsPersisted =>
        LET d == CallerDetails(customer_details')
        IN  Len(JsonLoads(d.children_birth_years).v) = d.num_children.v

\* C29: whenever the spouse-2 hit persists the details, the stored
\* birth-year list has exactly num_children entries, whatever hits the call
\* saw before (the sub-flow entered again, a year rejected on the way).
C29_ExactlyCountYears == [][C29_Step]_vars

C30_Step ==
    /\ \A m \in {"numChildren", "spouse1_workplaces"}
                 \cup {ChildBirthYearName(k) : k \in 1..MaxChildren} :
           ServedNow("menu", m) => customer_details' = customer_details
    /\ customer_details' # customer_details => DetailsPersisted
    /\ DetailsPersisted =>
           LET cd == current_calls'[CallA]
               d == CallerDetails(customer_details')
           IN  /\ d.num_children = GetOr(cd, "children_count", IntV(0))
               /\ d.children_birth_years =
                      JsonDumps(GetOr(cd, "children_birth_years", ListV(<<>>)))
               /\ d.spouse1_workplaces = GetOr(cd, "spouse1_workplaces", IntV(0))
               /\ d.spouse2_workplaces = IntV(Decimal(last'.args["spouse2_workplaces"]))
               /\ Cardinality({j \in 1..Len(customer_details') :
                                  customer_details'[j].customer_id = Caller.id}) = 1
               /\ \A j \in 1..Len(customer_details) :
                      customer_details[j].customer_id # Caller.id =>
                          customer_details'[j] = customer_details[j]

\* C30: the child-count, birth-year and spouse-1 hits leave the
\* customer_details table unchanged; only the spouse-2 hit that returns the
\* detailsUpdated confirmation writes it, storing the count, the serialized
\* birth-year list and both workplace counts of the session in the
\* caller's one details row.
C30_DetailsWrittenOnce == [][C30_Step]_vars

\* two birth years and both workplace counts were collected and stored by
\* the spouse-2 hit
C30_Witness ==
    /\ Answered("spouse2_workplaces")
    /\ last.resp = DetailsUpdatedMenu
    /\ Len(customer_details) = 1
    /\ customer_details[1].num_children = IntV(2)
    /\ customer_details[1].children_birth_years = JsonDumps(ListV(<<2020, 1976>>))
    /\ customer_details[1].spouse1_workplaces = IntV(10)
    /\ customer_details[1].spouse2_workplaces = IntV(0)

-----------------------------------------------------------------------------
(* The order of the details sub-flow *)

\* the session, before this step, of the call whose hit the step serves
HitSession == GetOr(current_calls, CallOf(last'.args), EmptyDict)

\* C31: a spouse-2 hit persists the details only if, earlier in the call, a
\* child count was accepted, as many birth years as that count were accepted
\* and a spouse-1 count was accepted: when it persists, the session of the
\* call holds the accepted count, at least that many years and an accepted
\* spouse-1 count.
C31_Step ==
    DetailsPersisted /\ customer_details' # customer_details =>
        /\ "children_count" \in DOMAIN HitSession
        /\ Len(GetOr(HitSession, "children_birth_years", ListV(<<>>)).v)
               >= HitSession["children_count"].v
        /\ \E n \in 0..MaxWorkplaces :
               Get(HitSession, "spouse1_workplaces") = IntV(n)

C31_PersistFollowsOrder == [][C31_Step]_vars

-----------------------------------------------------------------------------
(* Rejected values in the details sub-flow *)

\* the range of values the step named menu_name accepts
AcceptedRange(menu_name) ==
    IF menu_name = "numChildren" THEN 0..MaxChildren
    ELSE IF menu_name \in {"spouse1_workplaces", "spouse2_workplaces"}
    THEN 0..MaxWorkplaces
    ELSE (CurrentYear - MaxBirthYearAge)..CurrentYear

\* the hit served in this step answered the details step menu_name with a
\* value outside its range or not a number
RejectedNow(menu_name) ==
    /\ ServedNow("menu", menu_name)
    /\ Decimal(last'.args[menu_name]) \notin AcceptedRange(menu_name)

\* what the session of the call holds of the sub-flow: the cursor, the child
\* count and the years collected
FlowState(cc) ==
    [k \in {"current_child", "children_count", "children_birth_years"} |->
        Get(GetOr(cc, CallA, EmptyDict), k)]

C32_Step ==
    \A m \in {"numChildren", "spouse1_workplaces", "spouse2_workplaces"}
                \cup {ChildBirthYearName(k) : k \in 1..MaxChildren} :
        RejectedNow(m) =>
            /\ last'.resp = show_error_and_return_to_main
            /\ last'.resp.name # m
            /\ FlowState(current_calls') = FlowState(current_calls)
            /\ customer_details' = customer_details

\* C32: a child count outside 0..20, a birth year outside the last 50 years,
\* a workplace count outside 0..10 or a value that is no number is answered
\* with the error descriptor that leads to the main menu, not with the prompt
\* of the same step, and leaves the cursor, the child count and the years of
\* the session and the customer_details table as they were.
C32_RejectedValueAborts == [][C32_Step]_vars

\* the second birth year was rejected after the first was accepted
C32_Witness ==
    /\ Answered(ChildBirthYearName(2))
    /\ Decimal(LastValue) > CurrentYear
    /\ last.resp = show_error_and_return_to_main
    /\ FlowState(current_calls) =
           [current_child |-> IntV(2), children_count |-> IntV(2),
            children_birth_years |-> ListV(<<2020>>)]

-----------------------------------------------------------------------------
(* The age step *)

C33_Step ==
    ServedNow("menu", "ownerAge") /\ CallerRows # {} =>
        LET age == Decimal(last'.args["ownerAge"])
        IN  /\ last'.resp = require_profile_or_main(World', CallA, PhoneA)
            /\ IF age \in MinOwnerAge..MaxOwnerAge
               THEN /\ Caller'.owner_age = IntV(age)
                    /\ last'.resp.name # "ownerAge"
               ELSE /\ customers' = customers
                    /\ Truthy(Caller.tz_id) /\ IsNone(Caller.owner_age) =>
                           last'.resp = OwnerAgePrompt

\* C33: an age that is no number or lies outside 14..99 leaves the customer
\* row unchanged and the hit returns what the profile engine returns, which
\* for a customer with tz_id set and owner_age unset is the age prompt
\* again; an age within the range is stored as owner_age and the engine
\* returns a descriptor other than the age prompt.
C33_InvalidAgeAsksAgain == [][C33_Step]_vars

\* an age of 5 was refused and the age prompt returned again
C33_Witness ==
    /\ Answered("ownerAge")
    /\ LastValue = StrV(<<"5">>)
    /\ last.resp = OwnerAgePrompt
    /\ CallerRows # {}
    /\ Truthy(Caller.tz_id)
    /\ IsNone(Caller.owner_age)

-----------------------------------------------------------------------------
(* The columns of a Call row *)

\* the columns of a Call row other than its JSON bag
Columns(row) ==
    [call_id |-> row.call_id, phone_number |-> row.phone_number,
     customer_id |-> row.customer_id, pbx_num |-> row.pbx_num]

C34_Step ==
    /\ \A i \in 1..Len(calls) :
           Truthy(calls[i].phone_number) /\ IsNone(calls[i].customer_id) =>
               \E j \in 1..Len(calls') :
                   /\ calls'[j].call_id = calls[i].call_id
                   /\ IsNone(calls'[j].customer_id)
    /\ Hit /\ last'.route = "menu" =>
           /\ Len(calls') = Len(calls)
           /\ \A i \in 1..Len(calls) : Columns(calls'[i]) = Columns(calls[i])

\* C34: the customer reference of a Call row is that of the first hit that
\* logged the call: a row logged with the caller's phone and a null
\* reference, before the caller registered, keeps it through every later hit of the call, and a menu hit,
\* which merges its input into the bag, leaves the call id, phone, customer
\* reference and PBX number of every row as they were.
C34_CustomerReferenceFixed == [][C34_Step]_vars

-----------------------------------------------------------------------------
(* The amount of a receipt *)

\* C35: whatever hits a call made and in whatever order, every row of the
\* receipts table has a positive integer amount and the id of an existing
\* customer.
C35_ReceiptAmountPositive ==
    \A i \in 1..Len(receipts) :
        /\ receipts[i].amount.t = "int"
        /\ receipts[i].amount.v > 0
        /\ \E j \in 1..Len(customers) : customers[j].id = receipts[i].customer_id

-----------------------------------------------------------------------------
(* Sessions of different calls *)

CallB == StrV(<<"c", "2">>)

\* the call id of the hit this step takes in
HitCall == IF Idle /\ ~Idle' THEN CallOf(inflight'.args) ELSE CallOf(last'.args)

\* the sessions without that of call b
Without(cc, b) == [c \in DOMAIN cc \ {b} |-> cc[c]]

\* what the route does with the hit of this step in world w
Handled(w) ==
    IF Idle /\ ~Idle'
    THEN handle_menu_choice(w, inflight'.menu_name, inflight'.args)
    ELSE IF last'.route = "pbx" THEN Returned(handle_pbx_request(w, last'.args))
    ELSE handle_menu_choice(w, last'.menu_name, last'.args)

\* the outcome of a hit apart from the session of call b
Apart(r, b) == [r EXCEPT !.w.current_calls = Without(@, b)]

C36_Step ==
    /\ ~Hit => current_calls' = current_calls
    /\ Hit =>
           /\ DOMAIN current_calls' \subseteq DOMAIN current_calls \cup {HitCall}
           /\ \A b \in DOMAIN current_calls \ {HitCall} :
                  /\ b \in DOMAIN current_calls'
                  /\ current_calls'[b] = current_calls[b]
                  /\ Handled([World EXCEPT !.current_calls = Without(@, b)])
                         = Apart(Handled(World), b)

\* C36: a hit with call id A leaves the session of every other call id as
\* it was, adds no session but its own, and its response and everything it
\* writes are the same as they would be without the session of the other
\* call; a step that serves no hit changes no session.
C36_SessionsIsolated == [][C36_Step]_vars

\* a child count was entered on call c2 while call c1 held a receipt
\* amount: each session has its own field only
C36_Witness ==
    /\ Answered("numChildren")
    /\ CallOf(last.args) = CallB
    /\ {CallA, CallB} \subseteq DOMAIN current_calls
    /\ "receiptAmount" \in DOMAIN current_calls[CallA]
    /\ "children_count" \notin DOMAIN current_calls[CallA]
    /\ "children_count" \in DOMAIN current_calls[CallB]
    /\ "receiptAmount" \notin DOMAIN current_calls[CallB]

====
